---- MODULE Spec2Model ----
(***************************************************************************)
(* Material trial request lifecycle: the localStorage request store        *)
(* (utils/storage), the dashboard that opens one modal per role and        *)
(* status, and the submit handlers of the request, CMK, PPC, procurement   *)
(* and evaluation modals.                                                  *)
(***************************************************************************)
EXTENDS Integers, Sequences, FiniteSets, TLC

\* ------------------------------------------------------------------ bounds
MaxRequests == 2
MaxTrail == 7
MaxEdits == 1
MaxRequestsWrites == 1
MaxRequestsForms == 1
MaxRequestsStores == 1
MaxRequestsGone == 1
MaxRequestsClock == 1
MaxClock == 2
MaxTrailFinal == 8
MaxRequestsDropdown == 2

\* ------------------------------------------------------- values and users
\* JavaScript undefined / null; JSON.stringify drops undefined keys, so an
\* absent key and an undefined one are the same stored value.
Undef == "undefined"
\* null (no user, no selected request) and an absent stage-data block.
Null == [null |-> TRUE]
Absent == [absent |-> TRUE]

defaultUsers ==
  { [id |-> "1", username |-> "praful", role |-> "requestor"],
    [id |-> "2", username |-> "cmk", role |-> "cmk"],
    [id |-> "3", username |-> "ppc", role |-> "ppc"],
    [id |-> "4", username |-> "proc", role |-> "procurement"],
    [id |-> "5", username |-> "stores", role |-> "stores"],
    [id |-> "6", username |-> "eval", role |-> "evaluation"],
    [id |-> "7", username |-> "aarnav", role |-> "admin"] }

\* String.prototype.trim on the strings the forms draw from.
Trim(s) == IF s = " " THEN "" ELSE IF s = " PR1 " THEN "PR1" ELSE s

\* JavaScript truthiness of a string-or-undefined value.
Truthy(v) == v # Undef /\ v # ""

\* a || b
OrElse(a, b) == IF Truthy(a) THEN a ELSE b

\* ------------------------------------------------------------------ state
VARIABLES
  store,            \* localStorage['materialRequests'] : sequence of requests
  user,             \* AuthContext user of the tab, or Null
  requests,         \* Dashboard state: the list loaded by loadRequests
  selectedRequest,  \* Dashboard state: the request object handed to the modals
  modal,            \* which dialog is open: none/request/cmk/ppc/procurement/evaluation
  modalMode,        \* RequestModal mode: create/edit/view
  procAction,       \* ProcurementModal state 'action'
  evalAction,       \* EvaluationModal state 'action'
  toast,            \* title of the toast raised by the last handler, or "none"
  settings,         \* localStorage['appSettings'] as getSettings returns it
  inflight,         \* the calls the running handler has still to make; << >> when none runs
  users,            \* localStorage['users'] : the accounts that can log in
  now               \* the clock new Date() reads

vars == << store, user, requests, selectedRequest, modal, modalMode,
           procAction, evalAction, toast, settings, inflight, users, now >>

\* ---------------------------------------------------------- storage utils
getRequests == store

\* Array.prototype.findIndex(r => r.id === id); 0 stands for -1.
FindIndex(reqs, id) ==
  IF \E i \in 1..Len(reqs) : reqs[i].id = id
  THEN CHOOSE i \in 1..Len(reqs) :
         reqs[i].id = id /\ \A j \in 1..(i - 1) : reqs[j].id # id
  ELSE 0

\* { ...r, ...updates } : every key of updates replaces the key of r.
Spread(r, updates) ==
  [k \in DOMAIN r |-> IF k \in DOMAIN updates THEN updates[k] ELSE r[k]]

\* saveRequest: replace the stored request with the same id, or push.
saveRequest(reqs, request) ==
  LET existingIndex == FindIndex(reqs, request.id)
  IN  IF existingIndex > 0
      THEN [reqs EXCEPT ![existingIndex] = request]
      ELSE Append(reqs, request)

\* updateRequest merging the updates into every stored request.
updateRequest_everyRequest(reqs, id, updates) ==
  [i \in 1..Len(reqs) |-> Spread(reqs[i], updates)]

\* updateRequest: merge the updates into the stored request; unknown id: no write.
updateRequest(reqs, id, updates) ==
  LET requestIndex == FindIndex(reqs, id)
  IN  IF requestIndex > 0
      THEN [reqs EXCEPT ![requestIndex] = Spread(reqs[requestIndex], updates)]
      ELSE reqs

\* updateRequest's return value is null exactly when the id is unknown.
updateRequestFound(reqs, id) == FindIndex(reqs, id) > 0

\* addAuditEntry with the saveRequest call forgotten: the push is lost.
addAuditEntry_forgetSave(reqs, requestId, entry) == reqs

\* addAuditEntry with unshift for push: the newest entry goes first.
addAuditEntry_unshift(reqs, requestId, entry) ==
  LET i == FindIndex(reqs, requestId)
  IN  IF i > 0
      THEN saveRequest(reqs,
             [reqs[i] EXCEPT !.auditTrail = << entry >> \o reqs[i].auditTrail])
      ELSE reqs

\* addAuditEntry: re-read the request, push the entry, saveRequest it.
addAuditEntry(reqs, requestId, entry) ==
  LET i == FindIndex(reqs, requestId)
  IN  IF i > 0
      THEN saveRequest(reqs,
             [reqs[i] EXCEPT !.auditTrail = Append(reqs[i].auditTrail, entry)])
      ELSE reqs

\* One call of a handler (a storage call, or a toast, which leaves the store
\* alone), and a handler's calls in program order.
applyWrite(reqs, w) ==
  CASE w.op = "save"   -> saveRequest(reqs, w.request)
    [] w.op = "update" -> updateRequest(reqs, w.id, w.updates)
    [] w.op = "audit"  -> addAuditEntry(reqs, w.id, w.entry)
    [] w.op = "toast"  -> reqs

RECURSIVE applyWrites(_, _)
applyWrites(reqs, ws) ==
  IF ws = << >> THEN reqs ELSE applyWrites(applyWrite(reqs, Head(ws)), Tail(ws))

\* getSettings' defaults when nothing is stored.
defaultSettings ==
  [materialCategories |-> << "Cell", "Encapsulant", "Glass", "Junction Box", "Backsheet",
                            "Flux", "Sealant", "Connector", "FG Module" >>,
   purposes |-> << "Quality Improvement", "Alternate Vendor Development",
                   "Cost Reduction", "Performance Enhancement" >>]

\* addToDropdown without the includes test.
addToDropdown_alwaysPush(st, type, value) ==
  [st EXCEPT ![type] = Append(st[type], value)]

\* addToDropdown: push the value unless the list includes it.
addToDropdown(st, type, value) ==
  IF \E i \in 1..Len(st[type]) : st[type][i] = value
  THEN st
  ELSE [st EXCEPT ![type] = Append(st[type], value)]

\* generateId returning the same id on every call.
generateId_sameId(reqs) == 1

\* generateId: Date.now() + random suffix, a fresh id.
generateId(reqs) == Len(reqs) + 1

\* ------------------------------------------------------------ form inputs
\* What the user can have typed or selected when a form is submitted.
Strs == {"", " ", " PR1 "}
RequestForms ==
  { [materialDetails |-> "cell M10", materialCategory |-> "Cell", customCategory |-> "",
     purpose |-> "Cost Reduction", customPurpose |-> "", quantity |-> Undef],
    [materialDetails |-> "", materialCategory |-> "", customCategory |-> "",
     purpose |-> "", customPurpose |-> "", quantity |-> Undef] }
CMKForms ==
  [decision : {"trial", "rejected"}, plant : {"", "P2"},
   quantityRevised : {""}, reason : {"", "Spec mismatch"}]
PPCForms == [prNumber : Strs, materialCode : {"", "M1"}, description : {"", "d"}]
ProcurementForms == [orderType : {"", "air"}, estimatedDelivery : {"", "2025-01-10"},
                     remarks : {""}]
EvaluationForms == [received : BOOLEAN, completionDate : {"", "2025-02-01"},
                    report : {" ", "ok"}]

\* --------------------------------------------------------------- Dashboard
\* loadRequests: the list state becomes a copy of the store.
loadRequests == getRequests

Range(seq) == { seq[i] : i \in 1..Len(seq) }

\* getRelevantRequests with the requestor's rows not filtered by requestorId.
getRelevantRequests_noOwnerFilter ==
  IF user = Null THEN {}
  ELSE CASE user.role \in {"requestor", "admin"} -> Range(requests)
         [] user.role = "cmk"         -> { r \in Range(requests) : r.status = "pending_cmk" }
         [] user.role = "ppc"         -> { r \in Range(requests) : r.status = "pending_ppc" }
         [] user.role = "procurement" ->
              { r \in Range(requests) : r.status \in {"pending_procurement", "ordered"} }
         [] user.role = "evaluation"  ->
              { r \in Range(requests) : r.status \in {"delivered", "pending_evaluation"} }
         [] OTHER                     -> {}

\* getRelevantRequests: the rows the table shows to the logged-in user.
getRelevantRequests ==
  IF user = Null THEN {}
  ELSE CASE user.role = "requestor"   -> { r \in Range(requests) : r.requestorId = user.id }
         [] user.role = "cmk"         -> { r \in Range(requests) : r.status = "pending_cmk" }
         [] user.role = "ppc"         -> { r \in Range(requests) : r.status = "pending_ppc" }
         [] user.role = "procurement" ->
              { r \in Range(requests) : r.status \in {"pending_procurement", "ordered"} }
         [] user.role = "evaluation"  ->
              { r \in Range(requests) : r.status \in {"delivered", "pending_evaluation"} }
         [] user.role = "admin"       -> Range(requests)
         [] OTHER                     -> {}

\* handleViewRequest with the role tests left out.
ViewModalFor_noRoleCheck(role, status) ==
  IF status = "pending_cmk" THEN "cmk"
  ELSE IF status = "pending_ppc" THEN "ppc"
  ELSE IF status \in {"pending_procurement", "ordered"} THEN "procurement"
  ELSE IF status \in {"delivered", "pending_evaluation"} THEN "evaluation"
  ELSE "request"

\* handleViewRequest: the dialog opened for a role and a request status.
ViewModalFor(role, status) ==
  IF role = "cmk" /\ status = "pending_cmk" THEN "cmk"
  ELSE IF role = "ppc" /\ status = "pending_ppc" THEN "ppc"
  ELSE IF role = "procurement" /\ status \in {"pending_procurement", "ordered"}
       THEN "procurement"
  ELSE IF role = "evaluation" /\ status \in {"delivered", "pending_evaluation"}
       THEN "evaluation"
  ELSE "request"

Init ==
  /\ store = << >>
  /\ user = Null
  /\ requests = << >>
  /\ selectedRequest = Null
  /\ modal = "none"
  /\ modalMode = "view"
  /\ procAction = "order"
  /\ evalAction = "receive"
  /\ toast = "none"
  /\ settings = defaultSettings
  /\ inflight = << >>
  /\ users = defaultUsers
  /\ now = 0

\* AuthContext.login, then the Dashboard mounts and its effect runs loadRequests.
Login(u) ==
  /\ inflight = << >>
  /\ user = Null
  /\ user' = u
  /\ requests' = loadRequests
  /\ toast' = "none"
  /\ UNCHANGED << store, selectedRequest, modal, modalMode, procAction, evalAction,
                  settings, inflight, users, now >>

\* Layout.handleLogout: the Dashboard and every modal unmount, their state is gone.
Logout ==
  /\ inflight = << >>
  /\ user # Null
  /\ user' = Null
  /\ requests' = << >>
  /\ selectedRequest' = Null
  /\ modal' = "none"
  /\ modalMode' = "view"
  /\ procAction' = "order"
  /\ evalAction' = "receive"
  /\ toast' = "none"
  /\ UNCHANGED << store, settings, inflight, users, now >>

handleCreateRequest ==
  /\ user # Null /\ user.role = "requestor"
  /\ modal = "none" /\ inflight = << >>
  /\ selectedRequest' = Null
  /\ modalMode' = "create"
  /\ modal' = "request"
  /\ procAction' = "order"
  /\ evalAction' = "receive"
  /\ toast' = "none"
  /\ UNCHANGED << store, user, requests, settings, inflight, users, now >>

handleViewRequest(request) ==
  /\ user # Null
  /\ modal = "none" /\ inflight = << >>
  /\ request \in getRelevantRequests
  /\ selectedRequest' = request
  /\ modal' = ViewModalFor(user.role, request.status)
  /\ modalMode' = IF modal' = "request" THEN "view" ELSE modalMode
  /\ toast' = "none"
  /\ UNCHANGED << store, user, requests, procAction, evalAction, settings, inflight, users, now >>

handleEditRequest(request) ==
  /\ user # Null /\ user.role = "requestor"
  /\ modal = "none" /\ inflight = << >>
  /\ request \in getRelevantRequests
  /\ selectedRequest' = request
  /\ modalMode' = "edit"
  /\ modal' = "request"
  /\ toast' = "none"
  /\ UNCHANGED << store, user, requests, procAction, evalAction, settings, inflight, users, now >>

\* onClose of the open dialog (Cancel, or the dialog's close control).
onClose ==
  /\ modal # "none" /\ inflight = << >>
  /\ modal' = "none"
  /\ toast' = "none"
  /\ UNCHANGED << store, user, requests, selectedRequest, modalMode,
                  procAction, evalAction, settings, inflight, users, now >>

\* ------------------------------------------------ running a submit handler
\* What a submit handler does once its form is read: the storage calls and the
\* toast it makes, in program order, and whether it goes on to onSave and onClose
\* (ok) or returns early on a validation toast.
Toast(title) == [op |-> "toast", title |-> title]

RECURSIVE LastToast(_)
LastToast(ws) ==
  IF ws = << >> THEN "none"
  ELSE IF ws[Len(ws)].op = "toast" THEN ws[Len(ws)].title
  ELSE LastToast(SubSeq(ws, 1, Len(ws) - 1))

Refused(title) == [ok |-> FALSE, writes |-> << >>, toast |-> title]
Accepted(ws) == [ok |-> TRUE, writes |-> ws, toast |-> LastToast(ws)]

\* A handler that forgets onClose after a successful submit.
Run_keepOpen(out) ==
  /\ inflight = << >>
  /\ store' = applyWrites(store, out.writes)
  /\ toast' = out.toast
  /\ IF out.ok THEN requests' = store' ELSE UNCHANGED requests
  /\ UNCHANGED << user, selectedRequest, modal, modalMode, procAction, evalAction,
                  inflight, users, now >>

\* The handler from its first statement to its return, as one step.
Run(out) ==
  /\ inflight = << >>
  /\ store' = applyWrites(store, out.writes)
  /\ toast' = out.toast
  /\ IF out.ok
     THEN requests' = store' /\ modal' = "none"
     ELSE UNCHANGED << requests, modal >>
  /\ UNCHANGED << user, selectedRequest, modalMode, procAction, evalAction, inflight, users, now >>

\* The same handler one call at a time: its first call now, the rest in flight.
Begin(out) ==
  /\ inflight = << >>
  /\ IF out.ok
     THEN /\ store' = applyWrite(store, Head(out.writes))
          /\ toast' = IF Head(out.writes).op = "toast" THEN Head(out.writes).title
                      ELSE "none"
          /\ inflight' = Tail(out.writes)
     ELSE /\ toast' = out.toast
          /\ UNCHANGED << store, inflight >>
  /\ UNCHANGED << user, requests, selectedRequest, modal, modalMode,
                  procAction, evalAction, users, now >>

\* The running handler's next call; after its last one, onSave and onClose.
handlerStep ==
  /\ inflight # << >>
  /\ store' = applyWrite(store, Head(inflight))
  /\ toast' = IF Head(inflight).op = "toast" THEN Head(inflight).title ELSE toast
  /\ inflight' = Tail(inflight)
  /\ IF inflight' = << >>
     THEN requests' = store' /\ modal' = "none"
     ELSE UNCHANGED << requests, modal >>
  /\ UNCHANGED << user, selectedRequest, modalMode, procAction, evalAction, settings, users, now >>

\* localStorage.setItem throws (quota exceeded): the exception leaves the handler,
\* nothing after the failing call runs.
storageThrows ==
  /\ inflight # << >>
  /\ Head(inflight).op # "toast"
  /\ inflight' = << >>
  /\ UNCHANGED << store, user, requests, selectedRequest, modal, modalMode,
                  procAction, evalAction, toast, settings, users, now >>

\* Room left under the model's bounds for the write the handler is about to do.
TrailRoom(id) ==
  \A i \in 1..Len(store) : store[i].id = id => Len(store[i].auditTrail) < MaxTrail

EditRoom(id) ==
  \A i \in 1..Len(store) : store[i].id = id =>
     Cardinality({ k \in 1..Len(store[i].auditTrail) :
                     store[i].auditTrail[k].action = "Request Updated" }) < MaxEdits

\* An audit entry stamped by a clock that runs backwards.
AuditEntry_backwardsClock(action, u) ==
  [action |-> action, userId |-> u.id, timestamp |-> MaxClock - now]

AuditEntry(action, u) == [action |-> action, userId |-> u.id, timestamp |-> now]

\* ------------------------------------------------------------ RequestModal
\* The MaterialRequest object built by handleSubmit: the form's values, then
\* "...request" laid over them, so every key the request prop carries wins.
\* The create literal with the quantity key left out.
freshRequest_dropQuantity(form, u, reqs) ==
  [id |-> generateId(reqs),
   materialDetails |-> form.materialDetails,
   materialCategory |-> form.materialCategory,
   purpose |-> form.purpose,
   quantity |-> Undef,
   status |-> "pending_cmk",
   requestorId |-> u.id,
   plant |-> Undef,
   cmkDecision |-> Absent,
   ppcData |-> Absent,
   procurementData |-> Absent,
   storesData |-> Absent,
   evaluationData |-> Absent,
   finalCmkReview |-> Absent,
   auditTrail |-> << >>]

freshRequest(form, u, reqs) ==
  [id |-> generateId(reqs),
   materialDetails |-> form.materialDetails,
   materialCategory |-> form.materialCategory,
   purpose |-> form.purpose,
   quantity |-> form.quantity,
   status |-> "pending_cmk",
   requestorId |-> u.id,
   plant |-> Undef,
   cmkDecision |-> Absent,
   ppcData |-> Absent,
   procurementData |-> Absent,
   storesData |-> Absent,
   evaluationData |-> Absent,
   finalCmkReview |-> Absent,
   auditTrail |-> << >>]

\* requestData with "status: 'pending_cmk'" written after the spread.
requestData_resetStatus(request, form, u, reqs) ==
  IF request = Null
  THEN freshRequest(form, u, reqs)
  ELSE [request EXCEPT
          !.quantity = IF request.quantity = Undef THEN form.quantity ELSE @,
          !.status = "pending_cmk"]

\* requestData without the trailing "...request": only the keys the literal names.
requestData_literalOnly(request, form, u, reqs) ==
  IF request = Null
  THEN freshRequest(form, u, reqs)
  ELSE [freshRequest(form, u, reqs) EXCEPT
          !.id = request.id, !.status = request.status,
          !.auditTrail = request.auditTrail]

requestData(request, form, u, reqs) ==
  IF request = Null
  THEN freshRequest(form, u, reqs)
  ELSE [request EXCEPT
          !.quantity = IF request.quantity = Undef THEN form.quantity ELSE @]

\* The "Other" branches: a custom value replaces the field after the spread.
withCustom(data, form) ==
  LET d1 == IF form.materialCategory = "Other" /\ Truthy(form.customCategory)
            THEN [data EXCEPT !.materialCategory = form.customCategory] ELSE data
  IN  IF form.purpose = "Other" /\ Truthy(form.customPurpose)
      THEN [d1 EXCEPT !.purpose = form.customPurpose] ELSE d1

settingsAfter(st, form) ==
  LET s1 == IF form.materialCategory = "Other" /\ Truthy(form.customCategory)
            THEN addToDropdown(st, "materialCategories", form.customCategory) ELSE st
  IN  IF form.purpose = "Other" /\ Truthy(form.customPurpose)
      THEN addToDropdown(s1, "purposes", form.customPurpose) ELSE s1

RequestModal_outcome(form) ==
  LET data == withCustom(requestData(selectedRequest, form, user, store), form)
      action == IF modalMode = "create" THEN "Request Created" ELSE "Request Updated"
  IN  Accepted(<< [op |-> "save", request |-> data],
                  [op |-> "audit", id |-> data.id, entry |-> AuditEntry(action, user)],
                  Toast(action) >>)

\* The submit button exists in create and edit mode only; the browser blocks the
\* submit event while a required input (materialDetails) is empty.
RequestModal_enabled(form) ==
  /\ modal = "request" /\ modalMode # "view" /\ user # Null
  /\ form.materialDetails # ""
  /\ IF selectedRequest = Null THEN Len(store) < MaxRequests
     ELSE TrailRoom(selectedRequest.id) /\ EditRoom(selectedRequest.id)

RequestModal_handleSubmit(form) ==
  /\ RequestModal_enabled(form)
  /\ settings' = settingsAfter(settings, form)
  /\ Run(RequestModal_outcome(form))

\* ---------------------------------------------------------- CMKReviewModal
\* updatedRequest with the legacy statuses approved_trial / approved_pilot
\* written on approval.
CMKUpdates_legacyStatus(request, f, u) ==
  [status |-> IF f.decision = "rejected" THEN "rejected"
              ELSE IF f.decision = "pilot" THEN "approved_pilot" ELSE "approved_trial",
   cmkDecision |->
     [decision |-> f.decision,
      reason |-> IF f.decision = "rejected" THEN f.reason ELSE Undef,
      plant |-> IF f.decision # "rejected" THEN f.plant ELSE Undef,
      quantityRevised |-> IF f.quantityRevised # request.quantity
                          THEN f.quantityRevised ELSE Undef,
      approvedBy |-> u.id],
   plant |-> IF f.decision # "rejected" THEN f.plant ELSE Undef,
   quantity |-> f.quantityRevised]

CMKUpdates(request, f, u) ==
  [status |-> IF f.decision = "rejected" THEN "rejected" ELSE "pending_ppc",
   cmkDecision |->
     [decision |-> f.decision,
      reason |-> IF f.decision = "rejected" THEN f.reason ELSE Undef,
      plant |-> IF f.decision # "rejected" THEN f.plant ELSE Undef,
      quantityRevised |-> IF f.quantityRevised # request.quantity
                          THEN f.quantityRevised ELSE Undef,
      approvedBy |-> u.id],
   plant |-> IF f.decision # "rejected" THEN f.plant ELSE Undef,
   quantity |-> f.quantityRevised]

CMKReviewModal_outcome(f) ==
  IF f.decision = "rejected" /\ Trim(f.reason) = ""
  THEN Refused("Reason Required")
  ELSE IF f.decision \in {"trial", "pilot"} /\ ~Truthy(f.plant)
  THEN Refused("Plant Required")
  ELSE Accepted(
         << [op |-> "update", id |-> selectedRequest.id,
             updates |-> CMKUpdates(selectedRequest, f, user)],
            [op |-> "audit", id |-> selectedRequest.id,
             entry |-> AuditEntry(IF f.decision = "rejected" THEN "CMK Rejected Request"
                                  ELSE "CMK Approved Request", user)],
            Toast(IF f.decision = "rejected" THEN "Request Rejected"
                  ELSE "Request Approved") >>)

CMKReviewModal_enabled ==
  modal = "cmk" /\ user # Null /\ TrailRoom(selectedRequest.id)

CMKReviewModal_handleSubmit(f) ==
  /\ CMKReviewModal_enabled
  /\ Run(CMKReviewModal_outcome(f))
  /\ UNCHANGED settings

\* ---------------------------------------------------------------- PPCModal
\* PPCModal's updatedRequest with a "plant: undefined" key added.
PPCUpdates_clearPlant(f, u) ==
  [status |-> "pending_procurement",
   plant |-> Undef,
   ppcData |-> [prNumber |-> Trim(f.prNumber),
                materialCode |-> Trim(f.materialCode),
                description |-> Trim(f.description),
                enteredBy |-> u.id]]

PPCUpdates(f, u) ==
  [status |-> "pending_procurement",
   ppcData |-> [prNumber |-> Trim(f.prNumber),
                materialCode |-> Trim(f.materialCode),
                description |-> Trim(f.description),
                enteredBy |-> u.id]]

\* PPCModal.handleSubmit without the all-fields check.
PPCModal_outcome_noValidation(f) ==
  Accepted(
    << [op |-> "update", id |-> selectedRequest.id, updates |-> PPCUpdates(f, user)],
       [op |-> "audit", id |-> selectedRequest.id,
        entry |-> AuditEntry("PPC Data Added", user)],
       Toast("PPC Data Added") >>)

\* PPCModal.handleSubmit with updateRequest called before the blank-field test.
PPCModal_outcome_writeFirst(f) ==
  IF Trim(f.prNumber) = "" \/ Trim(f.materialCode) = "" \/ Trim(f.description) = ""
  THEN [ok |-> FALSE,
        writes |-> << [op |-> "update", id |-> selectedRequest.id,
                       updates |-> PPCUpdates(f, user)] >>,
        toast |-> "All Fields Required"]
  ELSE Accepted(
         << [op |-> "update", id |-> selectedRequest.id, updates |-> PPCUpdates(f, user)],
            [op |-> "audit", id |-> selectedRequest.id,
             entry |-> AuditEntry("PPC Data Added", user)],
            Toast("PPC Data Added") >>)

PPCModal_outcome(f) ==
  IF Trim(f.prNumber) = "" \/ Trim(f.materialCode) = "" \/ Trim(f.description) = ""
  THEN Refused("All Fields Required")
  ELSE Accepted(
         << [op |-> "update", id |-> selectedRequest.id, updates |-> PPCUpdates(f, user)],
            [op |-> "audit", id |-> selectedRequest.id,
             entry |-> AuditEntry("PPC Data Added", user)],
            Toast("PPC Data Added") >>)

PPCModal_enabled ==
  modal = "ppc" /\ user # Null /\ TrailRoom(selectedRequest.id)

PPCModal_handleSubmit(f) ==
  /\ PPCModal_enabled
  /\ Run(PPCModal_outcome(f))
  /\ UNCHANGED settings

\* --------------------------------------------------------- ProcurementModal
\* The Select lists "order" for a pending_procurement request and "deliver" for
\* an ordered one; choosing an item is the only way the action state changes.
ProcurementModal_setAction(a) ==
  /\ modal = "procurement" /\ inflight = << >>
  /\ \/ a = "order" /\ selectedRequest.status = "pending_procurement"
     \/ a = "deliver" /\ selectedRequest.status = "ordered"
  /\ procAction' = a
  /\ toast' = "none"
  /\ UNCHANGED << store, user, requests, selectedRequest, modal, modalMode,
                  evalAction, settings, inflight, users, now >>

\* { ...request.procurementData, <keys> } with procurementData possibly absent.
procurementDataOf(request) ==
  IF request.procurementData = Absent
  THEN [orderType |-> Undef, estimatedDelivery |-> Undef, remarks |-> Undef,
        deliveredAt |-> Undef, updatedBy |-> Undef]
  ELSE request.procurementData

\* updatedRequest with the deliver branch written without
\* "...request.procurementData".
ProcurementUpdates_dropOrder(action, request, f, u) ==
  IF action = "order"
  THEN [status |-> "ordered",
        procurementData |-> [orderType |-> f.orderType,
                             estimatedDelivery |-> f.estimatedDelivery,
                             remarks |-> f.remarks,
                             deliveredAt |-> Undef,
                             updatedBy |-> u.id]]
  ELSE [status |-> "delivered",
        procurementData |-> [orderType |-> Undef, estimatedDelivery |-> Undef,
                             remarks |-> Undef, deliveredAt |-> "now",
                             updatedBy |-> u.id]]

ProcurementUpdates(action, request, f, u) ==
  IF action = "order"
  THEN [status |-> "ordered",
        procurementData |-> [orderType |-> f.orderType,
                             estimatedDelivery |-> f.estimatedDelivery,
                             remarks |-> f.remarks,
                             deliveredAt |-> Undef,
                             updatedBy |-> u.id]]
  ELSE [status |-> "delivered",
        procurementData |-> [procurementDataOf(request) EXCEPT
                               !.deliveredAt = "now", !.updatedBy = u.id]]

ProcurementModal_outcome(f) ==
  IF procAction = "order" /\ (~Truthy(f.orderType) \/ ~Truthy(f.estimatedDelivery))
  THEN Refused("Required Fields Missing")
  ELSE Accepted(
         << [op |-> "audit", id |-> selectedRequest.id,
             entry |-> AuditEntry(IF procAction = "order" THEN "Material Ordered"
                                  ELSE "Material Delivered", user)],
            Toast(IF procAction = "order" THEN "Order Placed" ELSE "Material Delivered"),
            [op |-> "update", id |-> selectedRequest.id,
             updates |-> ProcurementUpdates(procAction, selectedRequest, f, user)] >>)

ProcurementModal_enabled ==
  modal = "procurement" /\ user # Null /\ TrailRoom(selectedRequest.id)

ProcurementModal_handleSubmit(f) ==
  /\ ProcurementModal_enabled
  /\ Run(ProcurementModal_outcome(f))
  /\ UNCHANGED settings

\* ---------------------------------------------------------- EvaluationModal
EvaluationModal_setAction(a) ==
  /\ modal = "evaluation" /\ inflight = << >>
  /\ \/ a = "receive" /\ selectedRequest.status = "delivered"
     \/ a = "report" /\ selectedRequest.status = "pending_evaluation"
  /\ evalAction' = a
  /\ toast' = "none"
  /\ UNCHANGED << store, user, requests, selectedRequest, modal, modalMode,
                  procAction, settings, inflight, users, now >>

evaluationDataOf(request) ==
  IF request.evaluationData = Absent
  THEN [received |-> FALSE, completionDate |-> Undef, report |-> Undef,
        updatedBy |-> Undef]
  ELSE request.evaluationData

\* EvaluationModal's updatedRequest with the report handing over to the final
\* CMK review instead of completing the request.
EvaluationUpdates_toFinalReview(action, request, f, u) ==
  IF action = "receive"
  THEN [status |-> "pending_evaluation",
        evaluationData |-> [received |-> TRUE,
                            completionDate |-> f.completionDate,
                            report |-> OrElse(evaluationDataOf(request).report, ""),
                            updatedBy |-> u.id]]
  ELSE [status |-> "pending_final_cmk",
        evaluationData |-> [evaluationDataOf(request) EXCEPT
                              !.received = TRUE, !.report = f.report,
                              !.updatedBy = u.id]]

EvaluationUpdates(action, request, f, u) ==
  IF action = "receive"
  THEN [status |-> "pending_evaluation",
        evaluationData |-> [received |-> TRUE,
                            completionDate |-> f.completionDate,
                            report |-> OrElse(evaluationDataOf(request).report, ""),
                            updatedBy |-> u.id]]
  ELSE [status |-> "completed",
        evaluationData |-> [evaluationDataOf(request) EXCEPT
                              !.received = TRUE, !.report = f.report,
                              !.updatedBy = u.id]]

EvaluationModal_outcome(f) ==
  IF evalAction = "receive" /\ ~f.received
  THEN Refused("Material Receipt Required")
  ELSE IF evalAction = "receive" /\ ~Truthy(f.completionDate)
  THEN Refused("Completion Date Required")
  ELSE IF evalAction = "report" /\ Trim(f.report) = ""
  THEN Refused("Report Required")
  ELSE Accepted(
         << [op |-> "audit", id |-> selectedRequest.id,
             entry |-> AuditEntry(IF evalAction = "receive"
                                  THEN "Material Received for Evaluation"
                                  ELSE "Evaluation Report Submitted", user)],
            Toast(IF evalAction = "receive" THEN "Material Received"
                  ELSE "Evaluation Complete"),
            [op |-> "update", id |-> selectedRequest.id,
             updates |-> EvaluationUpdates(evalAction, selectedRequest, f, user)] >>)

EvaluationModal_enabled ==
  modal = "evaluation" /\ user # Null /\ TrailRoom(selectedRequest.id)

EvaluationModal_handleSubmit(f) ==
  /\ EvaluationModal_enabled
  /\ Run(EvaluationModal_outcome(f))
  /\ UNCHANGED settings

\* ------------------------------------------------------------ specification
\* One browser tab; users log in and out in turn; every handler runs to its end.
Browse ==
  \/ \E u \in users : Login(u)
  \/ Logout
  \/ handleCreateRequest
  \/ \E r \in Range(requests) : handleViewRequest(r)
  \/ \E r \in Range(requests) : handleEditRequest(r)
  \/ onClose
  \/ \E a \in {"order", "deliver"} : ProcurementModal_setAction(a)
  \/ \E a \in {"receive", "report"} : EvaluationModal_setAction(a)

Next ==
  \/ Browse
  \/ \E f \in RequestForms : RequestModal_handleSubmit(f)
  \/ \E f \in CMKForms : CMKReviewModal_handleSubmit(f)
  \/ \E f \in PPCForms : PPCModal_handleSubmit(f)
  \/ \E f \in ProcurementForms : ProcurementModal_handleSubmit(f)
  \/ \E f \in EvaluationForms : EvaluationModal_handleSubmit(f)

Spec == Init /\ [][Next]_vars

\* The same tab with every handler taken one storage call at a time.
NextWrites ==
  \/ Browse
  \/ \E f \in RequestForms :
        RequestModal_enabled(f) /\ settings' = settingsAfter(settings, f)
          /\ (selectedRequest = Null => Len(store) < MaxRequestsWrites)
          /\ Begin(RequestModal_outcome(f))
  \/ \E f \in CMKForms :
        CMKReviewModal_enabled /\ Begin(CMKReviewModal_outcome(f)) /\ UNCHANGED settings
  \/ \E f \in PPCForms :
        PPCModal_enabled /\ Begin(PPCModal_outcome(f)) /\ UNCHANGED settings
  \/ \E f \in ProcurementForms :
        ProcurementModal_enabled /\ Begin(ProcurementModal_outcome(f))
          /\ UNCHANGED settings
  \/ \E f \in EvaluationForms :
        EvaluationModal_enabled /\ Begin(EvaluationModal_outcome(f)) /\ UNCHANGED settings
  \/ handlerStep
  \/ storageThrows

SpecWrites == Init /\ [][NextWrites]_vars

\* What the request form can hold at submit when every control is used: the
\* required text input materialDetails, the category and purpose Selects (never
\* touched, a listed value, or "Other" with the custom text input), the optional
\* quantity input and the BIS currency Select.
RequestFormsWide ==
  [materialDetails : {"", "cell M10", "cell G12"},
   materialCategory : {"", "Cell", "Other"}, customCategory : {"", "Wafer"},
   purpose : {"", "Cost Reduction"}, customPurpose : {""},
   quantity : {Undef, "5"}, bisCurrency : {Undef, "USD"}]

\* What the CMK form can hold at submit when every control is used.
CMKFormsWide ==
  [decision : {"trial", "pilot", "rejected"}, plant : {"", "P2"},
   quantityRevised : {"", "5"}, reason : {"", " ", "Spec mismatch"}]

\* The same tab with the whole request and CMK forms, on a store of at most
\* MaxRequestsForms requests.
NextForms ==
  \/ Browse
  \/ \E f \in RequestFormsWide :
        /\ selectedRequest = Null => Len(store) < MaxRequestsForms
        /\ RequestModal_handleSubmit(f)
  \/ \E f \in CMKFormsWide : CMKReviewModal_handleSubmit(f)
  \/ \E f \in PPCForms : PPCModal_handleSubmit(f)
  \/ \E f \in ProcurementForms : ProcurementModal_handleSubmit(f)
  \/ \E f \in EvaluationForms : EvaluationModal_handleSubmit(f)

SpecForms == Init /\ [][NextForms]_vars

\* -------------------------------------------------------------- StoresModal
\* receivedBy and the uploaded documents at submit.
StoresForms == [receivedBy : {"", " ", "Ravi"}, documents : {<< >>, << "grn.pdf" >>}]

\* No component mounts StoresModal. Here it is mounted the way the Dashboard
\* mounts the other stage modals, for the stage the transition table gives it:
\* a user of role stores opens a delivered request.
StoresModal_open(request) ==
  /\ user # Null /\ user.role = "stores"
  /\ modal = "none" /\ inflight = << >>
  /\ request \in Range(requests) /\ request.status = "delivered"
  /\ selectedRequest' = request
  /\ modal' = "stores"
  /\ toast' = "none"
  /\ UNCHANGED << store, user, requests, modalMode, procAction, evalAction, settings,
                  inflight, users, now >>

StoresUpdates(f, u) ==
  [status |-> "received",
   storesData |-> [receivedBy |-> f.receivedBy, documents |-> f.documents,
                   updatedBy |-> u.id]]

StoresModal_outcome(f) ==
  IF Trim(f.receivedBy) = "" \/ Len(f.documents) = 0
  THEN Refused("Error")
  ELSE IF ~updateRequestFound(store, selectedRequest.id)
  THEN [ok |-> FALSE, writes |-> << >>, toast |-> toast]
  ELSE Accepted(
         << [op |-> "update", id |-> selectedRequest.id, updates |-> StoresUpdates(f, user)],
            [op |-> "audit", id |-> selectedRequest.id,
             entry |-> AuditEntry("Material Received by Stores", user)],
            Toast("Success") >>)

StoresModal_enabled ==
  modal = "stores" /\ user # Null /\ TrailRoom(selectedRequest.id)

StoresModal_handleSubmit(f) ==
  /\ StoresModal_enabled
  /\ Run(StoresModal_outcome(f))
  /\ UNCHANGED settings

\* The tab of Spec with StoresModal mounted, on a store of at most
\* MaxRequestsStores requests.
NextStores ==
  \/ Browse
  \/ \E f \in RequestForms :
        /\ selectedRequest = Null => Len(store) < MaxRequestsStores
        /\ RequestModal_handleSubmit(f)
  \/ \E f \in CMKForms : CMKReviewModal_handleSubmit(f)
  \/ \E f \in PPCForms : PPCModal_handleSubmit(f)
  \/ \E f \in ProcurementForms : ProcurementModal_handleSubmit(f)
  \/ \E f \in EvaluationForms : EvaluationModal_handleSubmit(f)
  \/ \E r \in Range(requests) : StoresModal_open(r)
  \/ \E f \in StoresForms : StoresModal_handleSubmit(f)

SpecStores == Init /\ [][NextStores]_vars

\* ---------------------------------------------------------- UserManagement
\* What the admin can have entered in the user form (password and name are
\* tested like username and left out); the role Select starts at 'requestor'.
UserForms == [username : {"", "praful", "newreq"}, role : {"requestor"}]

\* Date.now().toString(): an id no stored user has.
newUserId == "8"

\* UserManagement.handleSubmit with no editingUser, on the /users page the admin
\* alone can use. The Dashboard is unmounted while that page is shown and mounts
\* again, empty-handed, when the admin returns to it.
UserManagement_handleSubmit(form) ==
  /\ inflight = << >> /\ modal = "none"
  /\ user # Null /\ user.role = "admin"
  /\ IF form.username = ""
     THEN toast' = "Missing Fields" /\ UNCHANGED users
     ELSE IF \E u \in users : u.username = form.username
     THEN toast' = "Username Exists" /\ UNCHANGED users
     ELSE /\ toast' = "User Created"
          /\ users' = users \cup {[id |-> newUserId, username |-> form.username,
                                    role |-> form.role]}
  /\ requests' = loadRequests
  /\ selectedRequest' = Null
  /\ modalMode' = "view"
  /\ procAction' = "order"
  /\ evalAction' = "receive"
  /\ UNCHANGED << store, user, modal, settings, inflight, now >>

\* The tab of Spec with the admin's user form.
NextUsers ==
  \/ Next
  \/ \E form \in UserForms : UserManagement_handleSubmit(form)

SpecUsers == Init /\ [][NextUsers]_vars


\* ------------------------------------------- the requestor and the dropdowns
\* Request forms that use the category and purpose Selects with and without
\* "Other" and a custom value.
DropdownForms ==
  [materialDetails : {"cell M10"},
   materialCategory : {"Cell", "Other"}, customCategory : {"", "Wafer"},
   purpose : {"Cost Reduction", "Other"}, customPurpose : {"", "Pilot Lot"},
   quantity : {Undef}, bisCurrency : {Undef}]

\* The requestor's part of the tab: creating, viewing and editing requests, on
\* a store of at most MaxRequestsDropdown requests.
NextDropdown ==
  \/ \E u \in { v \in users : v.role = "requestor" } : Login(u)
  \/ Logout
  \/ handleCreateRequest
  \/ \E r \in Range(requests) : handleViewRequest(r)
  \/ \E r \in Range(requests) : handleEditRequest(r)
  \/ onClose
  \/ \E f \in DropdownForms :
        /\ selectedRequest = Null => Len(store) < MaxRequestsDropdown
        /\ RequestModal_handleSubmit(f)

SpecDropdown == Init /\ [][NextDropdown]_vars

\* ------------------------------------------------------------------- clock
\* Time passes between two handlers: new Date() reads a later instant.
clockAdvances ==
  /\ inflight = << >>
  /\ now < MaxClock
  /\ now' = now + 1
  /\ UNCHANGED << store, user, requests, selectedRequest, modal, modalMode, procAction,
                  evalAction, toast, settings, inflight, users >>

\* The tab of Spec on a store of at most MaxRequestsClock requests, with time
\* passing.
NextClock ==
  \/ Browse
  \/ \E f \in RequestForms :
        /\ selectedRequest = Null => Len(store) < MaxRequestsClock
        /\ RequestModal_handleSubmit(f)
  \/ \E f \in CMKForms : CMKReviewModal_handleSubmit(f)
  \/ \E f \in PPCForms : PPCModal_handleSubmit(f)
  \/ \E f \in ProcurementForms : ProcurementModal_handleSubmit(f)
  \/ \E f \in EvaluationForms : EvaluationModal_handleSubmit(f)
  \/ clockAdvances

SpecClock == Init /\ [][NextClock]_vars

\* ------------------------------------------------------ a store that is gone
\* The 'materialRequests' key is removed from localStorage outside the
\* application (the browser's site data is cleared): getRequests returns [] from
\* then on, while the Dashboard keeps the list and the selection it had loaded.
materialRequestsRemoved ==
  /\ inflight = << >>
  /\ store # << >>
  /\ store' = << >>
  /\ UNCHANGED << user, requests, selectedRequest, modal, modalMode, procAction,
                  evalAction, toast, settings, inflight, users, now >>

\* Room left under the model's bounds in the selected request's own trail: an
\* edit saves the selected object, which the store need no longer hold.
SelectedRoom ==
  /\ Len(selectedRequest.auditTrail) < MaxTrail
  /\ Cardinality({ k \in 1..Len(selectedRequest.auditTrail) :
                     selectedRequest.auditTrail[k].action = "Request Updated" }) < MaxEdits

\* The tab of Spec on a store of at most MaxRequestsGone requests that can be
\* removed under it.
NextGone ==
  \/ Browse
  \/ \E f \in RequestForms :
        /\ IF selectedRequest = Null THEN Len(store) < MaxRequestsGone
           ELSE SelectedRoom
        /\ RequestModal_handleSubmit(f)
  \/ \E f \in CMKForms : CMKReviewModal_handleSubmit(f)
  \/ \E f \in PPCForms : PPCModal_handleSubmit(f)
  \/ \E f \in ProcurementForms : ProcurementModal_handleSubmit(f)
  \/ \E f \in EvaluationForms : EvaluationModal_handleSubmit(f)
  \/ materialRequestsRemoved

SpecGone == Init /\ [][NextGone]_vars

\* ------------------------------------------------- pages/Dashboard handleView
\* The values of the MaterialRequest status type.
StatusType ==
  {"pending_cmk", "approved_trial", "approved_pilot", "rejected", "pending_ppc",
   "pending_procurement", "ordered", "delivered", "pending_evaluation",
   "pending_final_cmk", "completed"}

\* handleView with the admin let through every role test.
handleView_modalType_adminActs(role, status) ==
  IF role \in {"cmk", "admin"} /\ status = "pending_cmk" THEN "cmk"
  ELSE IF role \in {"cmk", "admin"} /\ status = "pending_final_cmk" THEN "final_cmk"
  ELSE IF role \in {"ppc", "admin"} /\ status = "pending_ppc" THEN "ppc"
  ELSE IF role \in {"procurement", "admin"}
          /\ status \in {"pending_procurement", "ordered"}
       THEN "procurement"
  ELSE IF role \in {"evaluation", "admin"} /\ status \in {"delivered", "pending_evaluation"}
       THEN "evaluation"
  ELSE "request"

\* handleView of the routed Dashboard page: the modalType set for a role and
\* a request status ("request" stands for the RequestModal in view mode).
handleView_modalType(role, status) ==
  IF role = "cmk" /\ status = "pending_cmk" THEN "cmk"
  ELSE IF role = "cmk" /\ status = "pending_final_cmk" THEN "final_cmk"
  ELSE IF role = "ppc" /\ status = "pending_ppc" THEN "ppc"
  ELSE IF role = "procurement" /\ status \in {"pending_procurement", "ordered"}
       THEN "procurement"
  ELSE IF role = "evaluation" /\ status \in {"delivered", "pending_evaluation"}
       THEN "evaluation"
  ELSE "request"

\* Array.prototype.sort with the comparator (a, b) => time(b) - time(a): a stable
\* sort, newest first; entries of one instant keep their order.
InsertNewestFirst(sorted, e) ==
  LET later == { k \in 1..Len(sorted) : sorted[k].timestamp >= e.timestamp }
      n == Cardinality(later)
  IN  SubSeq(sorted, 1, n) \o << e >> \o SubSeq(sorted, n + 1, Len(sorted))

RECURSIVE SortNewestFirst(_)
SortNewestFirst(trail) ==
  IF trail = << >> THEN << >>
  ELSE InsertNewestFirst(SortNewestFirst(SubSeq(trail, 1, Len(trail) - 1)),
                         trail[Len(trail)])

\* The AuditTrail component rendering request.auditTrail: it calls sort on the
\* array it was given, which sorts that array in place.
AuditTrail_render(request) ==
  [request EXCEPT !.auditTrail = SortNewestFirst(@)]

\* handleView: the DataTable hands over any row of the loaded list; the modal
\* chosen for it renders, and FinalCMKModal renders the AuditTrail of the row
\* object, which is the object the list state holds.
handleView(request) ==
  /\ user # Null
  /\ modal = "none" /\ inflight = << >>
  /\ request \in Range(requests)
  /\ modal' = handleView_modalType(user.role, request.status)
  /\ IF modal' = "final_cmk"
     THEN /\ selectedRequest' = AuditTrail_render(request)
          /\ requests' = [k \in 1..Len(requests) |->
                            IF requests[k] = request THEN AuditTrail_render(request)
                            ELSE requests[k]]
     ELSE /\ selectedRequest' = request
          /\ UNCHANGED requests
  /\ modalMode' = "view"
  /\ toast' = "none"
  /\ UNCHANGED << store, user, procAction, evalAction, settings, inflight, users, now >>

\* handleModalClose of the routed Dashboard page.
handleModalClose ==
  /\ modal # "none" /\ inflight = << >>
  /\ selectedRequest' = Null
  /\ modal' = "none"
  /\ modalMode' = "view"
  /\ toast' = "none"
  /\ UNCHANGED << store, user, requests, procAction, evalAction, settings, inflight, users, now >>

\* A stored request of any status of the type, as the store may hold it when the
\* page loads.
InitView ==
  /\ \E s \in StatusType :
       store = << [freshRequest(CHOOSE f \in RequestForms : f.materialDetails # "",
                                CHOOSE u \in defaultUsers : u.role = "requestor", << >>)
                     EXCEPT !.status = s] >>
  /\ user = Null
  /\ requests = << >>
  /\ selectedRequest = Null
  /\ modal = "none"
  /\ modalMode = "view"
  /\ procAction = "order"
  /\ evalAction = "receive"
  /\ toast = "none"
  /\ settings = defaultSettings
  /\ inflight = << >>
  /\ users = defaultUsers
  /\ now = 0

\* Every user opening that request from either Dashboard's table.
NextView ==
  \/ \E u \in users : Login(u)
  \/ Logout
  \/ \E r \in Range(requests) : handleViewRequest(r)
  \/ \E r \in Range(requests) : handleView(r)
  \/ onClose
  \/ handleModalClose

SpecView == InitView /\ [][NextView]_vars

\* ------------------------------------------------------------ FinalCMKModal
\* decision, reason and comments at submit.
FinalForms ==
  [decision : {"approved", "rejected"}, reason : {"", " ", "Fails IEC"},
   comments : {"", "ok"}]

\* updates with "completed" written whatever the decision.
FinalCMKUpdates_alwaysCompleted(f, u) ==
  [finalCmkReview |->
     [decision |-> f.decision,
      reason |-> IF f.decision = "rejected" THEN f.reason ELSE Undef,
      comments |-> OrElse(Trim(f.comments), Undef),
      reviewedBy |-> u.id,
      reviewedAt |-> now],
   status |-> "completed"]

FinalCMKUpdates(f, u) ==
  [finalCmkReview |->
     [decision |-> f.decision,
      reason |-> IF f.decision = "rejected" THEN f.reason ELSE Undef,
      comments |-> OrElse(Trim(f.comments), Undef),
      reviewedBy |-> u.id,
      reviewedAt |-> now],
   status |-> IF f.decision = "approved" THEN "completed" ELSE "rejected"]

\* handleSubmit: a rejection needs a reason; nothing more happens when
\* updateRequest returns null.
FinalCMKModal_outcome(f) ==
  IF f.decision = "rejected" /\ Trim(f.reason) = ""
  THEN Refused("Error")
  ELSE IF ~updateRequestFound(store, selectedRequest.id)
  THEN [ok |-> FALSE, writes |-> << >>, toast |-> toast]
  ELSE Accepted(
         << [op |-> "update", id |-> selectedRequest.id, updates |-> FinalCMKUpdates(f, user)],
            [op |-> "audit", id |-> selectedRequest.id,
             entry |-> AuditEntry(IF f.decision = "approved" THEN "Final CMK Approval"
                                  ELSE "Final CMK Rejection", user)],
            Toast("Success") >>)

FinalCMKModal_enabled ==
  /\ modal = "final_cmk" /\ user # Null /\ inflight = << >>
  /\ \A i \in 1..Len(store) :
       store[i].id = selectedRequest.id => Len(store[i].auditTrail) < MaxTrailFinal

\* After a committed review: onUpdate is loadRequests, onClose is handleModalClose.
FinalCMKModal_handleSubmit(f) ==
  LET out == FinalCMKModal_outcome(f)
  IN  /\ FinalCMKModal_enabled
      /\ store' = applyWrites(store, out.writes)
      /\ toast' = out.toast
      /\ IF out.ok
         THEN /\ requests' = store'
              /\ selectedRequest' = Null
              /\ modal' = "none"
              /\ modalMode' = "view"
         ELSE UNCHANGED << requests, selectedRequest, modal, modalMode >>
      /\ UNCHANGED << user, procAction, evalAction, settings, inflight, users, now >>

\* The default user of a role.
UserOf(role) == CHOOSE u \in defaultUsers : u.role = role

\* The timestamps a trail of seven entries can carry: they never go down.
TrailStamps ==
  { ts \in [1..7 -> 0..MaxClock] : \A k \in 1..6 : ts[k] <= ts[k + 1] }

\* A request as the stage handlers leave it after the evaluation report, with
\* the report handing over to the final CMK review, its trail stamped by ts.
pendingFinalRequest(ts) ==
  LET r0 == freshRequest(CHOOSE f \in RequestForms : f.materialDetails # "",
                         UserOf("requestor"), << >>)
      r1 == Spread(r0, CMKUpdates(r0, [decision |-> "trial", plant |-> "P2",
                                       quantityRevised |-> "", reason |-> ""],
                                  UserOf("cmk")))
      r2 == Spread(r1, PPCUpdates([prNumber |-> " PR1 ", materialCode |-> "M1",
                                   description |-> "d"], UserOf("ppc")))
      pf == [orderType |-> "air", estimatedDelivery |-> "2025-01-10", remarks |-> ""]
      r3 == Spread(r2, ProcurementUpdates("order", r2, pf, UserOf("procurement")))
      r4 == Spread(r3, ProcurementUpdates("deliver", r3, pf, UserOf("procurement")))
      ef == [received |-> TRUE, completionDate |-> "2025-02-01", report |-> "ok"]
      r5 == Spread(r4, EvaluationUpdates("receive", r4, ef, UserOf("evaluation")))
      r6 == Spread(r5, EvaluationUpdates("report", r5, ef, UserOf("evaluation")))
      entry(k, action, role) ==
        [action |-> action, userId |-> UserOf(role).id, timestamp |-> ts[k]]
  IN  [r6 EXCEPT
         !.status = "pending_final_cmk",
         !.auditTrail =
            << entry(1, "Request Created", "requestor"),
               entry(2, "CMK Approved Request", "cmk"),
               entry(3, "PPC Data Added", "ppc"),
               entry(4, "Material Ordered", "procurement"),
               entry(5, "Material Delivered", "procurement"),
               entry(6, "Material Received for Evaluation", "evaluation"),
               entry(7, "Evaluation Report Submitted", "evaluation") >>]

\* The routed Dashboard page loading a store that holds one request awaiting the
\* final CMK review.
InitFinal ==
  /\ \E ts \in TrailStamps :
       /\ store = << pendingFinalRequest(ts) >>
       /\ now = ts[7]
  /\ user = Null
  /\ requests = << >>
  /\ selectedRequest = Null
  /\ modal = "none"
  /\ modalMode = "view"
  /\ procAction = "order"
  /\ evalAction = "receive"
  /\ toast = "none"
  /\ settings = defaultSettings
  /\ inflight = << >>
  /\ users = defaultUsers

NextFinal ==
  \/ \E u \in users : Login(u)
  \/ Logout
  \/ \E r \in Range(requests) : handleView(r)
  \/ handleModalClose
  \/ \E f \in FinalForms : FinalCMKModal_handleSubmit(f)
  \/ clockAdvances

SpecFinal == InitFinal /\ [][NextFinal]_vars

\* ------------------------------------------------------------ two sessions
MaxRequestsTabs == 1

\* The forms CMKReviewModal.handleSubmit and PPCModal.handleSubmit take past
\* their validation returns.
CMKAccepts(f) ==
  /\ ~(f.decision = "rejected" /\ Trim(f.reason) = "")
  /\ ~(f.decision \in {"trial", "pilot"} /\ ~Truthy(f.plant))

PPCAccepts(f) ==
  Trim(f.prNumber) # "" /\ Trim(f.materialCode) # "" /\ Trim(f.description) # ""

\* A second browser session on the same localStorage, logged in as the cmk
\* user: it loads the store, opens the review dialog on stored request i and
\* submits; handleSubmit runs from its first statement to its return.
secondSession_CMKSubmit(i, f) ==
  LET r == store[i]
      u == UserOf("cmk")
  IN  /\ ViewModalFor(u.role, r.status) = "cmk"
      /\ Len(r.auditTrail) < MaxTrail
      /\ CMKAccepts(f)
      /\ store' = addAuditEntry(
                    updateRequest(store, r.id, CMKUpdates(r, f, u)), r.id,
                    AuditEntry(IF f.decision = "rejected" THEN "CMK Rejected Request"
                               ELSE "CMK Approved Request", u))
      /\ UNCHANGED << user, requests, selectedRequest, modal, modalMode, procAction,
                      evalAction, toast, settings, inflight, users, now >>

\* The second session logged in as the ppc user, submitting PPCModal on stored
\* request i.
secondSession_PPCSubmit(i, f) ==
  LET r == store[i]
      u == UserOf("ppc")
  IN  /\ ViewModalFor(u.role, r.status) = "ppc"
      /\ Len(r.auditTrail) < MaxTrail
      /\ PPCAccepts(f)
      /\ store' = addAuditEntry(updateRequest(store, r.id, PPCUpdates(f, u)), r.id,
                                AuditEntry("PPC Data Added", u))
      /\ UNCHANGED << user, requests, selectedRequest, modal, modalMode, procAction,
                      evalAction, toast, settings, inflight, users, now >>

\* The tab of Spec on a store of at most MaxRequestsTabs requests that a second
\* session writes to as well; an edit saves the selected object, whose trail the
\* store's may have outgrown.
NextTabs ==
  \/ Browse
  \/ \E f \in RequestForms :
        /\ IF selectedRequest = Null THEN Len(store) < MaxRequestsTabs
           ELSE SelectedRoom
        /\ RequestModal_handleSubmit(f)
  \/ \E f \in CMKForms : CMKReviewModal_handleSubmit(f)
  \/ \E f \in PPCForms : PPCModal_handleSubmit(f)
  \/ \E f \in ProcurementForms : ProcurementModal_handleSubmit(f)
  \/ \E f \in EvaluationForms : EvaluationModal_handleSubmit(f)
  \/ \E i \in 1..Len(store), f \in CMKForms : secondSession_CMKSubmit(i, f)
  \/ \E i \in 1..Len(store), f \in PPCForms : secondSession_PPCSubmit(i, f)

SpecTabs == Init /\ [][NextTabs]_vars

\* ------------------------------------------------- the CMK quantity field
\* useState(request.quantity || ''): what the quantity field of a review dialog
\* mounted for this request holds until the CMK types in it.
CMKQuantityInitial(request) == OrElse(request.quantity, "")

\* --------------------------------------------- what a role is offered
\* The roles of the accounts.
Roles == { u.role : u \in defaultUsers }

\* The dialog a user of this role gets on a request of this status: the one
\* either Dashboard opens, or StoresModal where it is mounted.
OfferedModal(role, status) ==
  IF role = "stores" /\ status = "delivered" THEN "stores"
  ELSE IF ViewModalFor(role, status) # "request" THEN ViewModalFor(role, status)
  ELSE handleView_modalType(role, status)

\* The statuses the handler of the offered dialog writes on this request, over
\* the forms it accepts and the actions its Select lists for the status.
StageTargets(role, r) ==
  LET m == OfferedModal(role, r.status)
      u == UserOf(role)
  IN  CASE m = "cmk" ->
             { CMKUpdates(r, f, u).status : f \in { g \in CMKForms : CMKAccepts(g) } }
        [] m = "ppc" ->
             { PPCUpdates(f, u).status : f \in { g \in PPCForms : PPCAccepts(g) } }
        [] m = "procurement" ->
             { ProcurementUpdates(a, r, f, u).status :
                 a \in { b \in {"order", "deliver"} :
                           \/ b = "order" /\ r.status = "pending_procurement"
                           \/ b = "deliver" /\ r.status = "ordered" },
                 f \in { g \in ProcurementForms :
                           Truthy(g.orderType) /\ Truthy(g.estimatedDelivery) } }
        [] m = "evaluation" ->
             { EvaluationUpdates(a, r, f, u).status :
                 a \in { b \in {"receive", "report"} :
                           \/ b = "receive" /\ r.status = "delivered"
                           \/ b = "report" /\ r.status = "pending_evaluation" },
                 f \in { g \in EvaluationForms :
                           g.received /\ Truthy(g.completionDate) /\ Trim(g.report) # "" } }
        [] m = "final_cmk" ->
             { FinalCMKUpdates(f, u).status :
                 f \in { g \in FinalForms :
                           ~(g.decision = "rejected" /\ Trim(g.reason) = "") } }
        [] m = "stores" ->
             { StoresUpdates(f, u).status :
                 f \in { g \in StoresForms :
                           Trim(g.receivedBy) # "" /\ Len(g.documents) > 0 } }
        [] OTHER -> {}

\* ------------------------------------- localStorage reads and writes apart
MaxRequestsRaces == 2

\* A submit handler past its validation, with all its storage calls still to make.
Start(out) ==
  /\ inflight = << >>
  /\ IF out.ok
     THEN inflight' = out.writes /\ toast' = "none"
     ELSE toast' = out.toast /\ UNCHANGED inflight
  /\ UNCHANGED << store, user, requests, selectedRequest, modal, modalMode,
                  procAction, evalAction, users, now >>

\* The running handler's next localStorage access. updateRequest and saveRequest
\* read the array (getItem), change their copy and write it back (setItem);
\* addAuditEntry reads the array, pushes the entry onto the request it found
\* and hands it to saveRequest. The array read and not yet written back waits
\* in the handler as the value of the setItem to come, with the id of the
\* request the call is about. After the handler's last call, onSave and onClose.
storageStep ==
  /\ inflight # << >>
  /\ LET w == Head(inflight)
         rest == Tail(inflight)
         i == IF w.op \in {"update", "audit"} THEN FindIndex(store, w.id) ELSE 0
     IN  CASE w.op = "update" ->
                /\ inflight' = IF i > 0
                               THEN << [op |-> "setItem", id |-> w.id,
                                        value |-> updateRequest(store, w.id, w.updates)] >>
                                    \o rest
                               ELSE rest
                /\ UNCHANGED << store, toast >>
           [] w.op = "audit" ->
                /\ inflight' = IF i > 0
                               THEN << [op |-> "save",
                                        request |-> [store[i] EXCEPT !.auditTrail =
                                                       Append(@, w.entry)]] >> \o rest
                               ELSE rest
                /\ UNCHANGED << store, toast >>
           [] w.op = "save" ->
                /\ inflight' = << [op |-> "setItem", id |-> w.request.id,
                                   value |-> saveRequest(store, w.request)] >> \o rest
                /\ UNCHANGED << store, toast >>
           [] w.op = "setItem" ->
                /\ store' = w.value
                /\ inflight' = rest
                /\ UNCHANGED toast
           [] w.op = "toast" ->
                /\ toast' = w.title
                /\ inflight' = rest
                /\ UNCHANGED store
  /\ IF inflight' = << >>
     THEN requests' = store' /\ modal' = "none"
     ELSE UNCHANGED << requests, modal >>
  /\ UNCHANGED << user, selectedRequest, modalMode, procAction, evalAction, settings,
                  users, now >>

\* A tab in which the requestor creates requests and the cmk and ppc users act
\* on them, every localStorage access a step of its own, next to a second
\* session that commits on the same store.
NextRaces ==
  \/ \E u \in { v \in users : v.role \in {"requestor", "cmk", "ppc"} } : Login(u)
  \/ Logout
  \/ handleCreateRequest
  \/ \E r \in Range(requests) : handleViewRequest(r)
  \/ onClose
  \/ \E f \in RequestForms :
        /\ RequestModal_enabled(f) /\ modalMode = "create"
        /\ Len(store) < MaxRequestsRaces
        /\ settings' = settingsAfter(settings, f)
        /\ Start(RequestModal_outcome(f))
  \/ \E f \in CMKForms :
        CMKReviewModal_enabled /\ Start(CMKReviewModal_outcome(f)) /\ UNCHANGED settings
  \/ \E f \in PPCForms :
        PPCModal_enabled /\ Start(PPCModal_outcome(f)) /\ UNCHANGED settings
  \/ storageStep
  \/ \E i \in 1..Len(store), f \in CMKForms : secondSession_CMKSubmit(i, f)
  \/ \E i \in 1..Len(store), f \in PPCForms : secondSession_PPCSubmit(i, f)

SpecRaces == Init /\ [][NextRaces]_vars

\* ----------------------------------------------------- "pending for me"
\* DataTable.isPendingForUser: the rows ringed and listed under 'Pending for Me'.
isPendingForUser(status, userRole) ==
  CASE userRole = "cmk" -> status \in {"pending_cmk", "pending_final_cmk"}
    [] userRole = "ppc" -> status = "pending_ppc"
    [] userRole = "procurement" -> status = "pending_procurement"
    [] userRole = "evaluation" -> status = "pending_evaluation"
    [] OTHER -> FALSE

\* DataTable.pendingRequests with no search term and no filter set: the rows of
\* the list that are pending for the current user.
pendingRequests ==
  IF user = Null THEN << >>
  ELSE SelectSeq(requests, LAMBDA r : isPendingForUser(r.status, user.role))

\* Dashboard.getPendingCount: the number shown as 'Pending for you' in the header.
getPendingCount ==
  IF user = Null THEN 0
  ELSE LET n(S) == Cardinality({ k \in 1..Len(requests) : requests[k].status \in S })
       IN  CASE user.role = "cmk" -> n({"pending_cmk", "pending_final_cmk"})
             [] user.role = "ppc" -> n({"pending_ppc"})
             [] user.role = "procurement" -> n({"pending_procurement", "ordered"})
             [] user.role = "evaluation" -> n({"delivered", "pending_evaluation"})
             [] OTHER -> 0

\* ------------------------------------------- UserManagement: edit and delete
\* What the admin can have in the user form when editing an account: the
\* account's own values or changed ones.
UserEditForms == [username : {"", "praful", "newreq"}, role : {"requestor", "admin"}]

\* The accounts the Edit and Delete buttons are used on here.
EditedIds == {"1", "7", "8"}

\* The Dashboard mounting again, empty-handed, when the admin leaves /users.
dashboardRemounts ==
  /\ requests' = loadRequests
  /\ selectedRequest' = Null
  /\ modalMode' = "view"
  /\ procAction' = "order"
  /\ evalAction' = "receive"
  /\ UNCHANGED << store, user, modal, settings, inflight, now >>

\* handleDeleteUser without the test on the current user's id.
handleDeleteUser_noSelfCheck(userId) ==
  /\ inflight = << >> /\ modal = "none"
  /\ user # Null /\ user.role = "admin"
  /\ toast' = "User Deleted"
  /\ users' = { u \in users : u.id # userId }
  /\ dashboardRemounts

\* UserManagement.handleDeleteUser: the Delete button of a listed account.
handleDeleteUser(userId) ==
  /\ inflight = << >> /\ modal = "none"
  /\ user # Null /\ user.role = "admin"
  /\ IF userId = user.id
     THEN toast' = "Cannot Delete" /\ UNCHANGED users
     ELSE /\ toast' = "User Deleted"
          /\ users' = { u \in users : u.id # userId }
  /\ dashboardRemounts

\* handleEditUser followed by UserManagement.handleSubmit with editingUser set:
\* the form's values are spread over the account of that id.
UserManagement_handleSubmitEdit(editingUser, form) ==
  /\ inflight = << >> /\ modal = "none"
  /\ user # Null /\ user.role = "admin"
  /\ editingUser \in users
  /\ IF form.username = ""
     THEN toast' = "Missing Fields" /\ UNCHANGED users
     ELSE IF \E u \in users : u.username = form.username /\ u.id # editingUser.id
     THEN toast' = "Username Exists" /\ UNCHANGED users
     ELSE /\ toast' = "User Updated"
          /\ users' = { IF u.id = editingUser.id
                        THEN [u EXCEPT !.username = form.username, !.role = form.role]
                        ELSE u : u \in users }
  /\ dashboardRemounts

\* The admin's /users page next to logging in and out: accounts are created
\* (one created account at a time, its id distinct from every stored one),
\* edited and deleted.
NextAccounts ==
  \/ \E u \in users : Login(u)
  \/ Logout
  \/ \E form \in UserForms :
        /\ \A u \in users : u.id # newUserId
        /\ UserManagement_handleSubmit(form)
  \/ \E e \in { u \in users : u.id \in EditedIds }, form \in UserEditForms :
        UserManagement_handleSubmitEdit(e, form)
  \/ \E id \in EditedIds : handleDeleteUser(id)

SpecAccounts == Init /\ [][NextAccounts]_vars

\* ================================================================== claims
Stored == 1..Len(store)

Trail(reqs, i) == reqs[i].auditTrail

IsPrefix(a, b) == Len(a) <= Len(b) /\ SubSeq(b, 1, Len(a)) = a

Actions(trail) == { trail[k].action : k \in 1..Len(trail) }

\* The section 4.1 transition table.
TransitionTable ==
  { << "pending_cmk", "pending_ppc" >>, << "pending_cmk", "rejected" >>,
    << "pending_ppc", "pending_procurement" >>,
    << "pending_procurement", "ordered" >>,
    << "ordered", "delivered" >>,
    << "delivered", "pending_evaluation" >>,
    << "pending_evaluation", "completed" >>, << "pending_evaluation", "pending_final_cmk" >>,
    << "pending_final_cmk", "completed" >>, << "pending_final_cmk", "rejected" >> }

\* The stage command an audit entry records, and the status that command starts from.
StageActions ==
  { "CMK Approved Request", "CMK Rejected Request", "PPC Data Added", "Material Ordered",
    "Material Delivered", "Material Received for Evaluation",
    "Evaluation Report Submitted" }

SourceOf(action) ==
  CASE action \in {"CMK Approved Request", "CMK Rejected Request"} -> "pending_cmk"
    [] action = "PPC Data Added" -> "pending_ppc"
    [] action = "Material Ordered" -> "pending_procurement"
    [] action = "Material Delivered" -> "ordered"
    [] action = "Material Received for Evaluation" -> "delivered"
    [] action = "Evaluation Report Submitted" -> "pending_evaluation"

\* The role that owns a status in the section 4.1 table.
OwnerOf(status) ==
  CASE status \in {"pending_cmk", "pending_final_cmk"} -> "cmk"
    [] status = "pending_ppc" -> "ppc"
    [] status \in {"pending_procurement", "ordered"} -> "procurement"
    [] status \in {"delivered", "pending_evaluation"} -> "evaluation"
    [] OTHER -> "nobody"

\* Request i gains a stage command's audit entry in this step.
StageEntryAdded(i) ==
  /\ Len(Trail(store', i)) > Len(Trail(store, i))
  /\ Trail(store', i)[Len(Trail(store', i))].action \in StageActions

\* Request i's status or one of its stage-data blocks changes in this step.
StageFieldsChanged(i) ==
  \/ store'[i].status # store[i].status
  \/ store'[i].plant # store[i].plant
  \/ store'[i].cmkDecision # store[i].cmkDecision
  \/ store'[i].ppcData # store[i].ppcData
  \/ store'[i].procurementData # store[i].procurementData
  \/ store'[i].storesData # store[i].storesData
  \/ store'[i].evaluationData # store[i].evaluationData
  \/ store'[i].finalCmkReview # store[i].finalCmkReview

\* C1: every change of a stored request's status follows one row of the
\* transition table; no stage is skipped or reversed.
C1_StatusFollowsTable ==
  [][\A i \in Stored :
       store'[i].status # store[i].status
         => << store[i].status, store'[i].status >> \in TransitionTable]_vars

\* C2: a stage command is applied only to a request whose stored status is the
\* command's source status; submitted on any other status it changes nothing.
C2_OnlyFromSourceStatus ==
  [][\A i \in Stored :
       StageEntryAdded(i)
         => store[i].status = SourceOf(Trail(store', i)[Len(Trail(store', i))].action)]_vars

\* C3: every committed transition (a create or a successful stage submission,
\* whichever of updateRequest and addAuditEntry it calls first) leaves exactly
\* one request with exactly one more audit entry, all earlier entries kept.
C3_OneEntryPerCommit ==
  [][store' # store =>
       \E i \in 1..Len(store') :
         /\ \A j \in Stored \ {i} : store'[j] = store[j]
         /\ Len(store') = IF i \in Stored THEN Len(store) ELSE Len(store) + 1
         /\ LET before == IF i \in Stored THEN Trail(store, i) ELSE << >>
            IN  /\ Len(Trail(store', i)) = Len(before) + 1
                /\ \A k \in 1..Len(before) :
                     \E m \in 1..Len(Trail(store', i)) : Trail(store', i)[m] = before[k]]_vars

\* C3 witness: an update-then-audit commit (CMK) and an audit-then-update commit
\* (procurement order) have both landed on one request.
C3_Witness ==
  \E i \in Stored :
    /\ store[i].status = "ordered"
    /\ Len(Trail(store, i)) = 4
    /\ Trail(store, i)[2].action = "CMK Approved Request"
    /\ Trail(store, i)[4].action = "Material Ordered"

\* C5: the stored audit trail is append-only: across every operation of the
\* session the trail before is a prefix of the trail after.
C5_TrailAppendOnly ==
  [][\A i \in Stored : IsPrefix(Trail(store, i), Trail(store', i))]_vars

\* C5 witness: an edit has been saved over a request that already had stage entries.
C5_Witness ==
  \E i \in Stored :
    /\ Len(Trail(store, i)) >= 3
    /\ Trail(store, i)[Len(Trail(store, i))].action = "Request Updated"
    /\ Trail(store, i)[2].action = "CMK Approved Request"

\* C6: a request becomes rejected only through a CMK user's action taken while
\* the stored status is pending_cmk or pending_final_cmk.
C6_RejectOnlyByCMK ==
  [][\A i \in Stored :
       store'[i].status = "rejected" /\ store[i].status # "rejected"
         => /\ store[i].status \in {"pending_cmk", "pending_final_cmk"}
            /\ user.role = "cmk"]_vars

\* C6 witness: a request has been rejected.
C6_Witness ==
  \E i \in Stored :
    store[i].status = "rejected" /\ store[i].cmkDecision.decision = "rejected"

\* C7: only a user whose role owns the request's current status applies a stage
\* command to it; for any other user the request's status, stage data and stage
\* entries stay as they are.
C7_OnlyOwningRoleActs ==
  [][\A i \in Stored :
       StageEntryAdded(i) \/ StageFieldsChanged(i)
         => user # Null /\ user.role = OwnerOf(store[i].status)]_vars

\* C7 witness: a user whose role does not own pending_cmk has opened such a
\* request and got the read-only view, with the request untouched.
C7_Witness ==
  /\ user # Null /\ user.role \in {"admin", "requestor"}
  /\ modal = "request" /\ modalMode = "view"
  /\ selectedRequest # Null /\ selectedRequest.status = "pending_cmk"
  /\ \E i \in Stored : store[i] = selectedRequest /\ Len(Trail(store, i)) = 1

ValidationToasts ==
  { "Reason Required", "Plant Required", "All Fields Required", "Required Fields Missing",
    "Material Receipt Required", "Completion Date Required", "Report Required" }

Terminal == {"completed", "rejected"}
StageModals == {"cmk", "ppc", "procurement", "evaluation"}

\* C9: completed and rejected are terminal: no operation changes the status of
\* such a request, and no stage dialog is open on one.
C9_TerminalStays ==
  /\ [][\A i \in Stored :
          store[i].status \in Terminal => store'[i].status = store[i].status]_vars
  /\ [](modal \in StageModals =>
          \A i \in Stored : store[i].id = selectedRequest.id
                              => store[i].status \notin Terminal)

\* C9 witness: an operation (an edit) has acted on a completed request.
C9_Witness ==
  \E i \in Stored :
    /\ store[i].status = "completed"
    /\ Trail(store, i)[Len(Trail(store, i))].action = "Request Updated"

\* C10: an edit is accepted only while the stored status is pending_cmk.
C10_EditOnlyPendingCMK ==
  [][\A i \in Stored :
       ( /\ Len(Trail(store', i)) > Len(Trail(store, i))
         /\ Trail(store', i)[Len(Trail(store', i))].action = "Request Updated" )
         => store[i].status = "pending_cmk"]_vars

\* The status the store holds after the command an audit entry records.
StatusWritten(action) ==
  CASE action = "Request Created" -> "pending_cmk"
    [] action = "CMK Approved Request" -> "pending_ppc"
    [] action = "CMK Rejected Request" -> "rejected"
    [] action = "PPC Data Added" -> "pending_procurement"
    [] action = "Material Ordered" -> "ordered"
    [] action = "Material Delivered" -> "delivered"
    [] action = "Material Received for Evaluation" -> "pending_evaluation"
    [] action = "Evaluation Report Submitted" -> "completed"

RECURSIVE LastTransition(_)
LastTransition(trail) ==
  IF trail = << >> THEN "Request Created"
  ELSE IF trail[Len(trail)].action # "Request Updated" THEN trail[Len(trail)].action
  ELSE LastTransition(SubSeq(trail, 1, Len(trail) - 1))

\* C4: a transition's status change and its audit entry are in the store
\* together: in every store state the status of each request is the one written
\* by the last transition its audit trail records.
C4_StatusWithItsEntry ==
  \A i \in Stored : store[i].status = StatusWritten(LastTransition(Trail(store, i)))

\* ------------------------------------------------- create and edit (C11..C15)
\* A key of a stored request, undefined when the object does not carry it.
StoredField(r, k) == IF k \in DOMAIN r THEN r[k] ELSE Undef

\* The intake values a form submits: what its controls hold, a category or
\* purpose tagged "Other" standing for the custom value typed next to it.
SubmittedIntake(f) ==
  [materialDetails |-> f.materialDetails,
   materialCategory |-> IF f.materialCategory = "Other" /\ f.customCategory # ""
                        THEN f.customCategory ELSE f.materialCategory,
   purpose |-> IF f.purpose = "Other" /\ f.customPurpose # ""
               THEN f.customPurpose ELSE f.purpose,
   quantity |-> f.quantity]

\* The intake values a stored request holds.
IntakeOf(r) ==
  [materialDetails |-> r.materialDetails, materialCategory |-> r.materialCategory,
   purpose |-> r.purpose, quantity |-> r.quantity]

\* This step is the requestor's successful submit of form f in the given mode.
SubmitOf(f, mode) == modalMode = mode /\ RequestModal_handleSubmit(f)

\* C11: after a successful edit the stored request holds the intake values and
\* the BIS currency submitted in the edit form.
C11_EditStoresForm ==
  [][\A f \in RequestFormsWide :
       SubmitOf(f, "edit")
         => \E i \in 1..Len(store') :
              /\ store'[i].id = selectedRequest.id
              /\ IntakeOf(store'[i]) = SubmittedIntake(f)
              /\ StoredField(store'[i], "bisCurrency") = f.bisCurrency]_vars

\* C12: a successful edit leaves the request's status, plant, every stage-data
\* block and every existing audit entry as they were and appends exactly one
\* audit entry, its own; every other request is untouched.
C12_EditFrame ==
  [][(\E f \in RequestForms : SubmitOf(f, "edit"))
       => /\ Len(store') = Len(store)
          /\ \A i \in Stored :
               IF store[i].id = selectedRequest.id
               THEN /\ store'[i].status = store[i].status
                    /\ store'[i].plant = store[i].plant
                    /\ store'[i].cmkDecision = store[i].cmkDecision
                    /\ store'[i].ppcData = store[i].ppcData
                    /\ store'[i].procurementData = store[i].procurementData
                    /\ store'[i].storesData = store[i].storesData
                    /\ store'[i].evaluationData = store[i].evaluationData
                    /\ store'[i].finalCmkReview = store[i].finalCmkReview
                    /\ Trail(store', i)
                         = Append(Trail(store, i), AuditEntry("Request Updated", user))
               ELSE store'[i] = store[i]]_vars

\* C12 witness: an edit has been saved over a request that carries a plant, a
\* CMK decision, PPC data and procurement data.
C12_Witness ==
  \E i \in Stored :
    /\ store[i].status = "ordered"
    /\ store[i].plant = "P2"
    /\ store[i].ppcData # Absent /\ store[i].procurementData # Absent
    /\ Trail(store, i)[Len(Trail(store, i))].action = "Request Updated"

C14_CreateRoundTrip ==
  [][\A f \in RequestFormsWide :
       SubmitOf(f, "create")
         => /\ Len(store') = Len(store) + 1
            /\ SubSeq(store', 1, Len(store)) = store
            /\ requests' = store'
            /\ LET r == store'[Len(store')]
               IN  /\ \A i \in Stored : store[i].id # r.id
                   /\ IntakeOf(r) = SubmittedIntake(f)
                   /\ r.status = "pending_cmk"
                   /\ r.requestorId = user.id
                   /\ r.plant = Undef
                   /\ r.cmkDecision = Absent /\ r.ppcData = Absent
                   /\ r.procurementData = Absent /\ r.storesData = Absent
                   /\ r.evaluationData = Absent
                   /\ r.finalCmkReview = Absent
                   /\ r.auditTrail = << AuditEntry("Request Created", user) >>]_vars

\* C14 witness: a request created with a custom category and a quantity reads
\* back with both, at pending_cmk with the creation entry alone.
C14_Witness ==
  \E i \in Stored :
    /\ store[i].materialCategory = "Wafer"
    /\ store[i].quantity = "5"
    /\ store[i].status = "pending_cmk"
    /\ Actions(Trail(store, i)) = {"Request Created"}
    /\ Len(Trail(store, i)) = 1

\* The required intake fields of a form that are empty.
EmptyRequired(f) ==
  { k \in {"materialDetails", "materialCategory", "purpose"} : f[k] = "" }

\* C15: a create submission with an empty required field is refused: it stores
\* no request and appends no audit entry.
C15_CreateNeedsRequired ==
  [][\A f \in RequestFormsWide :
       SubmitOf(f, "create") /\ EmptyRequired(f) # {} => store' = store]_vars

\* The section 4.1 state set.
StatusSet ==
  { "pending_cmk", "pending_ppc", "pending_procurement", "ordered", "delivered",
    "pending_evaluation", "pending_final_cmk", "completed", "rejected" }

\* C16: in every store state each request's status is a member of the state
\* set, whichever handler wrote it, the stores handler included.
C16_StatusInSet ==
  \A i \in Stored : store[i].status \in StatusSet

\* ------------------------------------------------------- happy path (C17)
\* The simple variant's commands in order, as the audit trail records them, and
\* the status after each.
HappyActions ==
  << "Request Created", "CMK Approved Request", "PPC Data Added", "Material Ordered",
     "Material Delivered", "Material Received for Evaluation",
     "Evaluation Report Submitted" >>

HappyStatus ==
  << "pending_cmk", "pending_ppc", "pending_procurement", "ordered", "delivered",
     "pending_evaluation", "completed" >>

TrailActions(trail) == [k \in 1..Len(trail) |-> trail[k].action]

\* The request has gone through the first commands of the happy path and
\* through nothing else.
OnHappyPath(r) ==
  /\ Len(r.auditTrail) \in 1..Len(HappyActions)
  /\ TrailActions(r.auditTrail) = SubSeq(HappyActions, 1, Len(r.auditTrail))

\* This step is the submit of the happy path's command number k + 1 with the
\* scenario's payload.
ScenarioCommand(k) ==
  CASE k = 1 -> \E f \in CMKForms :
                  f.decision = "trial" /\ f.plant = "P2" /\ CMKReviewModal_handleSubmit(f)
    [] k = 2 -> \E f \in PPCForms :
                  /\ Trim(f.prNumber) = "PR1" /\ f.materialCode = "M1" /\ f.description = "d"
                  /\ PPCModal_handleSubmit(f)
    [] k = 3 -> /\ procAction = "order"
                /\ \E f \in ProcurementForms :
                     /\ f.orderType = "air" /\ f.estimatedDelivery # ""
                     /\ ProcurementModal_handleSubmit(f)
    [] k = 4 -> /\ procAction = "deliver"
                /\ \E f \in ProcurementForms : ProcurementModal_handleSubmit(f)
    [] k = 5 -> /\ evalAction = "receive"
                /\ \E f \in EvaluationForms :
                     /\ f.received /\ f.completionDate # ""
                     /\ EvaluationModal_handleSubmit(f)
    [] k = 6 -> /\ evalAction = "report"
                /\ \E f \in EvaluationForms :
                     f.report = "ok" /\ EvaluationModal_handleSubmit(f)
    [] OTHER -> FALSE

\* C17: a request taken through the happy path's commands in order has, after
\* each of them, the status of the next row, and each of those commands
\* submitted on it is accepted and adds one audit entry; after the seventh the
\* request is completed with an audit trail of length 7.
C17_HappyPath ==
  /\ [](\A i \in Stored :
          OnHappyPath(store[i]) => store[i].status = HappyStatus[Len(Trail(store, i))])
  /\ [][\A i \in Stored :
          ( /\ OnHappyPath(store[i])
            /\ selectedRequest # Null /\ selectedRequest.id = store[i].id
            /\ ScenarioCommand(Len(Trail(store, i))) )
            => /\ OnHappyPath(store'[i])
               /\ Len(Trail(store', i)) = Len(Trail(store, i)) + 1
               /\ store'[i].status = HappyStatus[Len(Trail(store', i))]]_vars

\* C17 witness: a request has been taken through all seven commands.
C17_Witness ==
  \E i \in Stored :
    /\ TrailActions(Trail(store, i)) = HappyActions
    /\ store[i].status = "completed"
    /\ store[i].plant = "P2" /\ store[i].ppcData.prNumber = "PR1"
    /\ store[i].evaluationData.report = "ok"

\* ------------------------------------------------------ CMK decide (C18, C19)
\* C18: CMK decide on a pending_cmk request: rejected with a non-blank reason
\* writes status rejected and a cmkDecision with decision rejected and that
\* reason; trial or pilot with a plant writes status pending_ppc and a
\* cmkDecision with that decision and plant; either way the audit trail grows
\* by exactly one entry.
C18_CMKDecide ==
  [][\A f \in CMKFormsWide : \A i \in Stored :
       ( /\ CMKReviewModal_handleSubmit(f)
         /\ store[i].id = selectedRequest.id /\ store[i].status = "pending_cmk" )
         => IF f.decision = "rejected" /\ Trim(f.reason) # ""
            THEN /\ store'[i].status = "rejected"
                 /\ store'[i].cmkDecision # Absent
                 /\ store'[i].cmkDecision.decision = "rejected"
                 /\ store'[i].cmkDecision.reason = f.reason
                 /\ Len(Trail(store', i)) = Len(Trail(store, i)) + 1
                 /\ IsPrefix(Trail(store, i), Trail(store', i))
            ELSE IF f.decision \in {"trial", "pilot"} /\ f.plant # ""
            THEN /\ store'[i].status = "pending_ppc"
                 /\ store'[i].cmkDecision # Absent
                 /\ store'[i].cmkDecision.decision = f.decision
                 /\ store'[i].cmkDecision.plant = f.plant
                 /\ Len(Trail(store', i)) = Len(Trail(store, i)) + 1
                 /\ IsPrefix(Trail(store, i), Trail(store', i))
            ELSE TRUE]_vars

\* C18 witness: a freshly created request with category Cell and purpose Cost
\* Reduction has been rejected with a reason and has an audit trail of length 2.
C18_Witness ==
  \E i \in Stored :
    /\ store[i].materialCategory = "Cell" /\ store[i].purpose = "Cost Reduction"
    /\ store[i].status = "rejected"
    /\ store[i].cmkDecision.decision = "rejected"
    /\ store[i].cmkDecision.reason = "Spec mismatch"
    /\ Len(Trail(store, i)) = 2

\* This step is an accepted CMK decision f on stored request i.
CMKDecides(f, i) ==
  /\ CMKReviewModal_handleSubmit(f)
  /\ store[i].id = selectedRequest.id
  /\ Len(Trail(store', i)) > Len(Trail(store, i))

\* C19: a request has no plant from creation until CMK decides; the plant
\* becomes the one CMK selected exactly when the decision is trial or pilot,
\* stays empty when CMK rejects, and no other operation changes or clears it.
C19_PlantSetByCMKOnly ==
  /\ [](\A i \in Stored : store[i].cmkDecision = Absent => store[i].plant = Undef)
  /\ [][\A i \in 1..Len(store') :
          IF i \in Stored
          THEN /\ \A f \in CMKFormsWide :
                    CMKDecides(f, i)
                      => store'[i].plant
                           = IF f.decision \in {"trial", "pilot"} THEN f.plant ELSE Undef
               /\ store'[i].plant # store[i].plant
                    => /\ store[i].plant = Undef
                       /\ \E f \in CMKFormsWide :
                            f.decision \in {"trial", "pilot"} /\ CMKDecides(f, i)
          ELSE store'[i].plant = Undef]_vars

\* C19 witness: a request approved for pilot at plant P2 has been edited,
\* passed PPC and been ordered by procurement, and still has that plant.
C19_Witness ==
  \E i \in Stored :
    /\ store[i].status = "ordered"
    /\ store[i].cmkDecision.decision = "pilot"
    /\ store[i].plant = "P2"
    /\ "Request Updated" \in Actions(Trail(store, i))

\* The stages from pending_procurement onwards.
PastPPC ==
  {"pending_procurement", "ordered", "delivered", "pending_evaluation",
   "pending_final_cmk", "completed"}

\* C20: in every reachable state a request whose status is pending_procurement
\* or a later stage has ppcData set, with prNumber, materialCode and
\* description all non-empty.
C20_PastPPCHasPPCData ==
  \A i \in Stored :
    store[i].status \in PastPPC
      => /\ store[i].ppcData # Absent
         /\ Truthy(store[i].ppcData.prNumber)
         /\ Truthy(store[i].ppcData.materialCode)
         /\ Truthy(store[i].ppcData.description)

\* C20 witness: a request whose PPC form was typed with surrounding blanks has
\* gone on to be delivered and holds the trimmed PR number.
C20_Witness ==
  \E i \in Stored :
    /\ store[i].status = "delivered"
    /\ store[i].ppcData # Absent
    /\ store[i].ppcData.prNumber = "PR1"
    /\ store[i].ppcData.materialCode = "M1"

\* The dialogs that carry a stage command.
StageModalTypes == {"cmk", "final_cmk", "ppc", "procurement", "evaluation"}

\* The roles a Dashboard hands a stage dialog for a request of the given status.
OfferedRoles(status) ==
  { u.role : u \in { v \in defaultUsers :
      \/ ViewModalFor(v.role, status) \in StageModalTypes
      \/ handleView_modalType(v.role, status) \in StageModalTypes } }

\* C21: each stage is single-writer: for every request status at most one role
\* is offered a stage dialog, and that role is the status's owner (cmk for
\* pending_cmk and pending_final_cmk, ppc for pending_ppc, procurement for
\* pending_procurement and ordered, evaluation for delivered and
\* pending_evaluation); requestor and admin are never offered one.
C21_SingleWriterStages ==
  /\ \A s \in StatusType :
       /\ Cardinality(OfferedRoles(s)) <= 1
       /\ OfferedRoles(s) \subseteq {OwnerOf(s)}
  /\ modal \in StageModalTypes
       => /\ user # Null /\ user.role \notin {"requestor", "admin"}
          /\ user.role = OwnerOf(selectedRequest.status)

\* C21 witness: the cmk user has been handed the final review dialog for a
\* pending_final_cmk request.
C21_Witness ==
  /\ modal = "final_cmk"
  /\ user # Null /\ user.role = "cmk"
  /\ selectedRequest # Null /\ selectedRequest.status = "pending_final_cmk"

\* The toasts with which the stage handlers report a committed command.
SuccessToasts ==
  { "Request Approved", "Request Rejected", "PPC Data Added", "Order Placed",
    "Material Delivered", "Material Received", "Evaluation Complete" }

\* This step is a submit of the open stage dialog.
StageSubmit ==
  \/ \E f \in CMKForms : CMKReviewModal_handleSubmit(f)
  \/ \E f \in PPCForms : PPCModal_handleSubmit(f)
  \/ \E f \in ProcurementForms : ProcurementModal_handleSubmit(f)
  \/ \E f \in EvaluationForms : EvaluationModal_handleSubmit(f)

\* C22: a stage command naming a request id that is not in the store fails:
\* the store is left unchanged, no audit entry is written, and the command is
\* not reported as a success.
C22_UnknownIdFails ==
  [][(StageSubmit /\ FindIndex(store, selectedRequest.id) = 0)
       => /\ store' = store
          /\ toast' \notin SuccessToasts
          /\ modal' = modal]_vars

\* With an unknown id a stage command leaves the store as it is.
UnknownIdNoWrite ==
  [][(StageSubmit /\ FindIndex(store, selectedRequest.id) = 0) => store' = store]_vars

\* The timestamps of a trail never go down along the sequence.
NonDecreasing(trail) ==
  \A k, m \in 1..Len(trail) : k < m => trail[k].timestamp <= trail[m].timestamp

\* C23: within each stored request's auditTrail the timestamps are
\* non-decreasing in insertion order, the clock never going backwards.
C23_TimestampsNonDecreasing ==
  \A i \in Stored : NonDecreasing(Trail(store, i))

\* C23 witness: a trail whose entries were written at three different instants,
\* the last of them by a handler that appends its entry before its update.
C23_Witness ==
  \E i \in Stored :
    /\ Len(Trail(store, i)) >= 4
    /\ Trail(store, i)[1].timestamp = 0
    /\ Trail(store, i)[2].timestamp = 1
    /\ Trail(store, i)[Len(Trail(store, i))].timestamp = 2
    /\ Trail(store, i)[Len(Trail(store, i))].action = "Material Ordered"

\* The reference-value sets and values that can be added to them.
DropdownTypes == {"materialCategories", "purposes"}
DropdownValues == {"Cell", "Wafer", "Cost Reduction", "Pilot Lot"}

NoDuplicates(list) ==
  \A k, m \in 1..Len(list) : list[k] = list[m] => k = m

\* C24: addToDropdown is idempotent: adding a value the set already holds
\* leaves the settings unchanged, adding a novel value twice equals adding it
\* once, and after any sequence of additions neither set holds a duplicate.
C24_AddToDropdownIdempotent ==
  /\ \A t \in DropdownTypes : NoDuplicates(settings[t])
  /\ \A t \in DropdownTypes, v \in DropdownValues :
       LET once == addToDropdown(settings, t, v)
       IN  /\ addToDropdown(once, t, v) = once
           /\ (\E k \in 1..Len(settings[t]) : settings[t][k] = v) => once = settings

\* C24 witness: two requests were each created or edited with the custom
\* category Wafer, and the category set holds Wafer once.
C24_Witness ==
  /\ Len(store) = 2
  /\ \A i \in Stored : store[i].materialCategory = "Wafer"
  /\ Cardinality({ k \in 1..Len(settings.materialCategories) :
                     settings.materialCategories[k] = "Wafer" }) = 1

\* The form names a custom category, or a custom purpose.
CustomCategory(f) == f.materialCategory = "Other" /\ f.customCategory # ""
CustomPurpose(f) == f.purpose = "Other" /\ f.customPurpose # ""

\* C25: the reference-value sets change only when a request is created with
\* its category or purpose tagged "Other" and a custom value, which is then
\* both stored on the request and added to the matching set; edits and stage
\* commands never change the sets.
C25_SetsChangeOnCreateOnly ==
  [][/\ settings' # settings
          => \E f \in RequestFormsWide :
               SubmitOf(f, "create") /\ (CustomCategory(f) \/ CustomPurpose(f))
     /\ \A f \in RequestFormsWide :
          SubmitOf(f, "create")
            => LET r == store'[Len(store')]
               IN  /\ CustomCategory(f)
                        => /\ r.materialCategory = f.customCategory
                           /\ f.customCategory \in Range(settings'.materialCategories)
                   /\ CustomPurpose(f)
                        => /\ r.purpose = f.customPurpose
                           /\ f.customPurpose \in Range(settings'.purposes)]_vars

\* The sets change in no other step than a submit of the request form.
SetsChangeOnRequestSubmitOnly ==
  [][settings' # settings
       => \E f \in RequestFormsWide :
            RequestModal_handleSubmit(f) /\ (CustomCategory(f) \/ CustomPurpose(f))]_vars

\* The ids of the stored requests, in store order.
Ids(reqs) == [i \in 1..Len(reqs) |-> reqs[i].id]

\* C26: no operation removes a stored request or changes its id: the number of
\* stored requests never decreases, a create adds exactly one request under an
\* id no stored request has and replaces none, and edits and stage commands
\* keep the count.
C26_NoRemovalIdsKept ==
  /\ [](\A i, j \in Stored : store[i].id = store[j].id => i = j)
  /\ [][/\ Len(store') >= Len(store)
         /\ SubSeq(Ids(store'), 1, Len(store)) = Ids(store)
         /\ IF \E f \in RequestForms : SubmitOf(f, "create")
            THEN /\ Len(store') = Len(store) + 1
                 /\ \A i \in Stored : store[i].id # store'[Len(store')].id
            ELSE Len(store') = Len(store)]_vars

\* C26 witness: two requests are stored under different ids, the first of them
\* edited and taken on to procurement, the second still pending.
C26_Witness ==
  /\ Len(store) = 2
  /\ store[1].id # store[2].id
  /\ "Request Updated" \in Actions(Trail(store, 1))
  /\ store[1].status = "pending_procurement"
  /\ store[2].status = "pending_cmk"

\* C27: the final CMK review of a pending_final_cmk request writes
\* finalCmkReview with the decision, the reviewer's id, the review time and,
\* when rejected, the reason; it sets the status to completed when approved
\* and to rejected when rejected, and appends exactly one audit entry.
C27_FinalCMKReview ==
  [][\A f \in FinalForms, i \in Stored :
       (/\ FinalCMKModal_handleSubmit(f)
        /\ store[i].id = selectedRequest.id
        /\ store[i].status = "pending_final_cmk"
        /\ ~(f.decision = "rejected" /\ Trim(f.reason) = ""))
         => /\ store'[i].finalCmkReview.decision = f.decision
            /\ store'[i].finalCmkReview.reviewedBy = user.id
            /\ store'[i].finalCmkReview.reviewedAt = now
            /\ store'[i].finalCmkReview.reason
                 = IF f.decision = "rejected" THEN f.reason ELSE Undef
            /\ store'[i].status
                 = IF f.decision = "approved" THEN "completed" ELSE "rejected"
            /\ Len(Trail(store', i)) = Len(Trail(store, i)) + 1
            /\ IsPrefix(Trail(store, i), Trail(store', i))
            /\ Trail(store', i)[Len(Trail(store', i))].userId = user.id
            /\ Trail(store', i)[Len(Trail(store', i))].action
                 = IF f.decision = "approved" THEN "Final CMK Approval"
                   ELSE "Final CMK Rejection"]_vars

\* C27 witness: a final review has rejected a request with a reason.
C27_Witness ==
  \E i \in Stored :
    /\ store[i].status = "rejected"
    /\ store[i].finalCmkReview # Absent
    /\ store[i].finalCmkReview.decision = "rejected"
    /\ store[i].finalCmkReview.reason = "Fails IEC"
    /\ Len(Trail(store, i)) = 8
    /\ Trail(store, i)[8].action = "Final CMK Rejection"

\* The store after the evaluation dialog is submitted with form f.
AfterEvaluationSubmit(f) == applyWrites(store, EvaluationModal_outcome(f).writes)

\* C28: the extended variant is supported: whenever the evaluation dialog is
\* open for the report on a pending_evaluation request, some report can be
\* submitted that moves the request to pending_final_cmk, from where the final
\* CMK review can fire.
C28_ReportCanReachFinalReview ==
  (/\ modal = "evaluation" /\ evalAction = "report"
   /\ selectedRequest # Null /\ selectedRequest.status = "pending_evaluation")
    => \E f \in EvaluationForms :
         \E i \in Stored :
           /\ store[i].id = selectedRequest.id
           /\ AfterEvaluationSubmit(f)[i].status = "pending_final_cmk"

\* No stored request is ever at pending_final_cmk.
NeverPendingFinalCMK ==
  \A i \in Stored : store[i].status # "pending_final_cmk"

StoredOrderKept ==
  [][\A i \in Stored : IsPrefix(Trail(store, i), Trail(store', i))]_vars

\* C30: each request is an independent unit of mutation: a create leaves every
\* stored request as it was, and an edit, a stage submission or an audit append
\* on one request leaves every other stored request, with its status, stage
\* data and audit trail, as it was.
C30_OtherRequestsUntouched ==
  [][store' # store
       => IF selectedRequest = Null
          THEN SubSeq(store', 1, Len(store)) = store
          ELSE /\ Len(store') = Len(store)
               /\ \A i \in Stored :
                    store[i].id # selectedRequest.id => store'[i] = store[i]]_vars

\* C30 witness: the second request has been taken to completion while the
\* first, created before it, is as its creation left it.
C30_Witness ==
  /\ Len(store) = 2
  /\ store[1].status = "pending_cmk" /\ Len(Trail(store, 1)) = 1
  /\ store[1].cmkDecision = Absent
  /\ store[2].status = "completed" /\ Len(Trail(store, 2)) = 7

\* ------------------------------------------------ two sessions (C31, C37)
\* C31: an edit submitted from a snapshot loaded before another session
\* committed a stage transition does not revert it: after the edit the stored
\* request still has the status, the stage data and every audit entry the store
\* held before the edit.
C31_StaleEditKeepsTransition ==
  [][(\E f \in RequestForms : SubmitOf(f, "edit"))
       => \A i \in Stored :
            store[i].id = selectedRequest.id
              => /\ store'[i].status = store[i].status
                 /\ ~StageFieldsChanged(i)
                 /\ IsPrefix(Trail(store, i), Trail(store', i))]_vars

\* What does hold: an edit submitted from a snapshot that is the stored request
\* keeps the status, the stage data and the trail.
FreshEditKeepsTransition ==
  [][(\E f \in RequestForms : SubmitOf(f, "edit"))
       => \A i \in Stored :
            store[i] = selectedRequest
              => /\ store'[i].status = store[i].status
                 /\ ~StageFieldsChanged(i)
                 /\ IsPrefix(Trail(store, i), Trail(store', i))]_vars

\* ------------------------------------------- action and status (C32..C34)
\* The status each action of the two-step modals starts from.
ActionSource(a) ==
  CASE a = "order" -> "pending_procurement"
    [] a = "deliver" -> "ordered"
    [] a = "receive" -> "delivered"
    [] a = "report" -> "pending_evaluation"

\* This step is a ProcurementModal / EvaluationModal submission that went past
\* validation and was applied.
ProcurementApplied ==
  \E f \in ProcurementForms :
    ProcurementModal_handleSubmit(f) /\ ProcurementModal_outcome(f).ok

EvaluationApplied ==
  \E f \in EvaluationForms :
    EvaluationModal_handleSubmit(f) /\ EvaluationModal_outcome(f).ok

\* C32: the action a ProcurementModal or EvaluationModal submission applies
\* is the one of the request's status: order on pending_procurement, deliver on
\* ordered, receive on delivered, report on pending_evaluation.
C32_ActionMatchesStatus ==
  [][/\ ProcurementApplied
          => \A i \in Stored : store[i].id = selectedRequest.id
                                 => store[i].status = ActionSource(procAction)
     /\ EvaluationApplied
          => \A i \in Stored : store[i].id = selectedRequest.id
                                 => store[i].status = ActionSource(evalAction)]_vars

\* What does hold: the two modals are applied only to requests of their own
\* stage, whatever the action.
ModalMatchesStage ==
  [][/\ ProcurementApplied
          => \A i \in Stored : store[i].id = selectedRequest.id
                                 => store[i].status \in {"pending_procurement", "ordered"}
     /\ EvaluationApplied
          => \A i \in Stored : store[i].id = selectedRequest.id
                                 => store[i].status \in {"delivered", "pending_evaluation"}]_vars

\* C33: a completed request has all earlier stage data: a CMK decision trial
\* or pilot, PPC data, procurement data with orderType, estimatedDelivery and
\* deliveredAt, and evaluation data with received, a completionDate and a
\* non-blank report.
C33_CompletedHasStageData ==
  \A i \in Stored :
    store[i].status = "completed"
      => /\ store[i].cmkDecision # Absent
         /\ store[i].cmkDecision.decision \in {"trial", "pilot"}
         /\ store[i].ppcData # Absent
         /\ store[i].procurementData # Absent
         /\ Truthy(store[i].procurementData.orderType)
         /\ Truthy(store[i].procurementData.estimatedDelivery)
         /\ Truthy(store[i].procurementData.deliveredAt)
         /\ store[i].evaluationData # Absent
         /\ store[i].evaluationData.received = TRUE
         /\ Truthy(store[i].evaluationData.completionDate)
         /\ Trim(store[i].evaluationData.report) # ""

\* What does hold: a completed request has an approving CMK decision, PPC
\* data, a procurementData block and a received evaluation with a non-blank report.
CompletedHasReport ==
  \A i \in Stored :
    store[i].status = "completed"
      => /\ store[i].cmkDecision # Absent
         /\ store[i].cmkDecision.decision \in {"trial", "pilot"}
         /\ store[i].ppcData # Absent
         /\ store[i].procurementData # Absent
         /\ store[i].evaluationData # Absent
         /\ store[i].evaluationData.received = TRUE
         /\ Trim(store[i].evaluationData.report) # ""

\* C34: later steps of a stage keep what the earlier step recorded: 'mark
\* delivered' on a request that has procurementData keeps orderType,
\* estimatedDelivery and remarks and only sets deliveredAt and the actor stamp;
\* 'submit report' on a request that has evaluationData keeps completionDate
\* and only sets report and the actor stamp.
C34_LaterStepKeepsEarlier ==
  [][/\ \A f \in ProcurementForms :
          ProcurementModal_handleSubmit(f) /\ ProcurementModal_outcome(f).ok
            /\ procAction = "deliver"
            => \A i \in Stored :
                 store[i].id = selectedRequest.id /\ store[i].procurementData # Absent
                   => store'[i].procurementData
                        = [store[i].procurementData EXCEPT
                             !.deliveredAt = "now", !.updatedBy = user.id]
     /\ \A f \in EvaluationForms :
          EvaluationModal_handleSubmit(f) /\ EvaluationModal_outcome(f).ok
            /\ evalAction = "report"
            => \A i \in Stored :
                 store[i].id = selectedRequest.id /\ store[i].evaluationData # Absent
                   => store'[i].evaluationData
                        = [store[i].evaluationData EXCEPT
                             !.report = f.report, !.updatedBy = user.id]]_vars

\* C34 witness: a request ordered by air was marked delivered, received with a
\* completion date and reported on.
C34_Witness ==
  \E i \in Stored :
    /\ store[i].status = "completed"
    /\ store[i].procurementData # Absent
    /\ store[i].procurementData.orderType = "air"
    /\ store[i].procurementData.estimatedDelivery = "2025-01-10"
    /\ store[i].procurementData.deliveredAt = "now"
    /\ store[i].evaluationData # Absent
    /\ store[i].evaluationData.completionDate = "2025-02-01"
    /\ store[i].evaluationData.report = "ok"

\* ------------------------------------------------------ CMK quantity (C35)
\* This step is the CMK's committed review of form f.
CMKApplied(f) == CMKReviewModal_handleSubmit(f) /\ CMKReviewModal_outcome(f).ok

\* C35: CMK decide revises the quantity only when the CMK changed it. Submitted
\* with the quantity field as the dialog showed it, the stored quantity is
\* unchanged and cmkDecision.quantityRevised is unset; submitted with a
\* different quantity, the stored quantity becomes that value and
\* cmkDecision.quantityRevised records it.
C35_QuantityRevisedOnlyOnChange ==
  [][\A f \in CMKFormsWide :
       CMKApplied(f)
         => \A i \in Stored :
              store[i].id = selectedRequest.id
                => IF f.quantityRevised = CMKQuantityInitial(store[i])
                   THEN /\ store'[i].quantity = store[i].quantity
                        /\ store'[i].cmkDecision.quantityRevised = Undef
                   ELSE /\ store'[i].quantity = f.quantityRevised
                        /\ store'[i].cmkDecision.quantityRevised = f.quantityRevised]_vars

\* What does hold: the same statement for requests that were created with a
\* quantity.
QuantityRevisedWhenGiven ==
  [][\A f \in CMKFormsWide :
       CMKApplied(f)
         => \A i \in Stored :
              store[i].id = selectedRequest.id /\ Truthy(store[i].quantity)
                => IF f.quantityRevised = CMKQuantityInitial(store[i])
                   THEN /\ store'[i].quantity = store[i].quantity
                        /\ store'[i].cmkDecision.quantityRevised = Undef
                   ELSE /\ store'[i].quantity = f.quantityRevised
                        /\ store'[i].cmkDecision.quantityRevised = f.quantityRevised]_vars

\* ---------------------------------------------------------- dead ends (C36)
\* C36: no stored non-terminal status is a dead end: for every stored request
\* that is neither completed nor rejected, some role is offered a stage command
\* whose submission moves the request to a different status.
C36_NoDeadEnd ==
  \A i \in Stored :
    store[i].status \notin Terminal
      => \E role \in Roles : StageTargets(role, store[i]) \ {store[i].status} # {}

\* What does hold: every non-terminal status other than 'received' has such a
\* command.
NoDeadEndButReceived ==
  \A i \in Stored :
    store[i].status \notin Terminal \cup {"received"}
      => \E role \in Roles : StageTargets(role, store[i]) \ {store[i].status} # {}

\* ------------------------------------------- reads and writes apart (C37)
\* The request the running handler's next access is about.
WorksOn(r) ==
  LET w == Head(inflight)
  IN  /\ w.op # "toast"
      /\ r.id = IF w.op = "save" THEN w.request.id ELSE w.id

\* C37: with the two sessions' localStorage reads and writes interleaved, a
\* handler's accesses never lose what the other session committed on a
\* different request: every stored request other than the one the handler
\* works on is left as it is.
C37_NoLostUpdate ==
  [][storageStep
       => \A j \in Stored :
            ~WorksOn(store[j]) => j <= Len(store') /\ store'[j] = store[j]]_vars

\* What does hold: a handler's accesses never remove a stored request.
RacesKeepRequests ==
  [][storageStep => Len(store') >= Len(store)]_vars

\* ---------------------------------------------------- pending for me (C38)
\* C38: the two 'pending for me' views agree: a loaded request is marked
\* pending for the logged-in user by isPendingForUser exactly when handleView
\* opens that role's action dialog for it, and the header count of
\* getPendingCount is the number of rows of the 'Pending for Me' tab.
C38_PendingViewsAgree ==
  user # Null
    => /\ \A k \in 1..Len(requests) :
            isPendingForUser(requests[k].status, user.role)
              <=> handleView_modalType(user.role, requests[k].status) # "request"
       /\ getPendingCount = Len(pendingRequests)

\* What does hold: every row marked pending opens the role's action dialog,
\* and the header count is the number of rows that open one.
PendingRowsOpenDialog ==
  user # Null
    => /\ \A k \in 1..Len(requests) :
            isPendingForUser(requests[k].status, user.role)
              => handleView_modalType(user.role, requests[k].status) # "request"
       /\ getPendingCount
            = Cardinality({ k \in 1..Len(requests) :
                handleView_modalType(user.role, requests[k].status) # "request" })

\* -------------------------------------------------------- accounts (C39)
\* C39: after any sequence of create-user, edit-user and delete-user
\* operations from the default users, no two stored users share a username,
\* and the account of the logged-in admin is never removed.
C39_UsernamesUniqueAdminKept ==
  /\ \A u, v \in users : u.username = v.username => u = v
  /\ user # Null /\ user.role = "admin" => \E u \in users : u.id = user.id

\* C39 witness: the logged-in admin has created an account and renamed it to the
\* username of an account deleted before, and was refused the deletion of their
\* own account.
C39_Witness ==
  /\ user # Null /\ user.role = "admin"
  /\ toast = "Cannot Delete"
  /\ \A u \in users : u.id # "1"
  /\ \E u \in users : u.id = newUserId /\ u.username = "praful"

====
